---- MODULE Spec2Model ----
(***************************************************************************)
(* Tunnel data plane of uscf: the maintenance loop (MaintainTunnel), one   *)
(* connection attempt (handleConnection), the forwarding engine            *)
(* (handleForwarding and its two copy loops), the packet buffer pool       *)
(* (NetBuffer) and the reconnect policy (ExponentialBackoff), as written   *)
(* in src/api/tunnel.go.                                                   *)
(*                                                                         *)
(* Durations are integers (time.Duration is an int64 count of ticks).      *)
(* Factor is a float64 in the code; it is kept here as the exact rational  *)
(* FactorNum / FactorDen, so float64(delay) * Factor truncated to a        *)
(* Duration is (delay * FactorNum) \div FactorDen.                         *)
(***************************************************************************)
EXTENDS Integers, Sequences, FiniteSets, Bags, TLC

\* ------------------------------------------------------------------ bounds
MaxAttempts == 2      \* handleConnection calls of one maintenance loop
MaxPackets == 1       \* packets the device and the IP connections deliver in all
MaxK == 4             \* largest attempt argument given to NextDelay directly
MaxRecords == 3       \* RecordPacketIn / RecordPacketOut calls made in all
MaxTime == 3          \* seconds the clock of the resolver runs for
MaxClients == 2       \* SOCKS clients that connect to the listener
MaxPooled == 2        \* slices a NetBuffer holds at a time

\* ------------------------------------------------------ program constants
packetBuffCap == 2048
JitterDivisor == 10   \* float64(delay) * 0.1

NoDelay == -1
NoBuf == [cap |-> 0, len |-> 0, rel |-> 0, held |-> FALSE]

DefaultMTU == 1280    \* tunnel.mtu of GetDefaultTunnelConfig
\* packet lengths and ICMP reply lengths (0: no reply)
PktSizes == {1}
IcmpSizes == {0, 2}

Attempts == 1..MaxAttempts

\* goroutines sharing one TunnelStats: the two copy loops of the current
\* session and the egress loop left over from the session before
Recorders == {"egress", "ingress", "leftover"}
RecordSizes == {1, 2}

DefaultCacheTTL == 600        \* NewCachingDNSResolver: cacheTTLSeconds <= 0
DefaultDNSTimeoutSec == 2     \* tunnel.dns_timeout of GetDefaultTunnelConfig
TTLInputs == {0, 2}           \* cacheTTLSeconds given to the constructor
Hosts == {"a.example", "b.example"}
IPs == {"ip1", "ip2"}
Callers == {"c1", "c2"}       \* goroutines calling Resolve
NoEntry == [IP |-> "nil", ExpiresAt |-> 0, exists |-> FALSE]
NoCall == [pc |-> "idle", name |-> "", now |-> 0, ctxDone |-> FALSE,
           lookup |-> "none", resultChan |-> <<>>, ip |-> "nil", err |-> "nil",
           hit |-> FALSE]

Clients == 1..MaxClients
Shared == 0           \* owner of the device Service.Run creates
Owners == {Shared} \cup Clients
NoLifecycle == [state |-> "none", cancelled |-> FALSE]

VARIABLES
  ctxDone,            \* MaintainTunnel's ctx has been cancelled
  devClosed,          \* the tunnel device has been closed
  mpc,                \* position of the MaintainTunnel goroutine
  attempts,           \* handleConnection calls made so far
  argAttempt,         \* handleConnection's reconnectAttempt parameter
  reconnectAttempt,   \* MaintainTunnel's reconnectAttempt of line 750
  retAttempt,         \* the reconnectAttempt declared by := on line 761
  err,                \* the err declared on line 761
  b,                  \* config.ReconnectStrategy (*ExponentialBackoff)
  delay,              \* delay of line 767 while the loop sleeps on it
  stats,              \* *TunnelStats
  packetBufferPool,   \* *NetBuffer: capacity and free list size
  conn,               \* per attempt: rsp status and the three resources
  hfCancelled,        \* per session: handleForwarding's cancel() was called
  hfReturned,         \* per session: handleForwarding has returned
  errChan,            \* per session: errChan of line 597
  egress,             \* per session: device -> IP connection goroutine
  ingress,            \* per session: IP connection -> device goroutine
  failOrder,          \* per session: loops in the order their I/O failed
  lost,               \* per session: buffers dropped without a release
  devReads,           \* packets the device has delivered
  ipReads,            \* packets the IP connections have delivered
  postCancelAttempts, \* handleConnection calls begun after ctx was cancelled
  written,            \* packets each sink has accepted, in the order of the writes
  recorders,          \* goroutines inside RecordPacketIn / RecordPacketOut
  requested,          \* what the callers of RecordPacket* asked to add so far
  clock,              \* time.Now(), in seconds
  resolver,           \* *CachingDNSResolver: CacheTTL and cache
  calls,              \* per caller: its Resolve call and lookup goroutine
  perClient,          \* cfg.Tunnel.PerClient
  rootDone,           \* the ctx given to Service.Run has been cancelled
  runPc,              \* position of Service.Run / socks.Run
  runResult,          \* what Service.Run returned
  listener,           \* l of socks.Run
  closer,             \* the goroutine of socks.Run line 60-63
  device,             \* per owner: the tun device created for it
  lifecycle,          \* per owner: its MaintainTunnel goroutine and scope
  session,            \* per client: its SOCKS connection and goroutine
  budget,             \* packets the device and the IP connections will deliver
  poolOp,             \* the last call on the NetBuffer and its buffer
  poolUse,            \* which NetBuffer the global names, and who holds what of it
  tconn,              \* a *TimeoutConn, its net.Conn and its last call
  cfg,                \* config.AppConfig
  flags,              \* the flags given to the proxy command
  cmdPc,              \* position of runProxyCmd
  configFile,         \* the configuration file SaveConfig writes
  server              \* the socks5.Server of createServer and its last client

tunnelVars == <<ctxDone, devClosed, mpc, attempts, argAttempt, reconnectAttempt,
                retAttempt, err, b, delay, stats, packetBufferPool, conn,
                hfCancelled, hfReturned, errChan, egress, ingress, failOrder, lost,
                devReads, ipReads, postCancelAttempts, written>>
recordVars == <<recorders, requested>>
resolverVars == <<clock, resolver, calls>>
serviceVars == <<perClient, rootDone, runPc, runResult, listener, closer,
                 device, lifecycle, session>>
poolVars == <<poolOp, poolUse>>
connVars == <<tconn>>
commandVars == <<cfg, flags, cmdPc, configFile, server>>
extraVars == <<budget, poolVars, connVars, commandVars>>
vars == <<tunnelVars, recordVars, resolverVars, serviceVars, extraVars>>

\* ============================================================ backoff
\* ExponentialBackoff.NextDelay, line 567-569: attempt <= 0 means b.attempt + 1
EffectiveAttempt(bo, attempt) ==
  IF attempt <= 0 THEN bo.attempt + 1 ELSE attempt

\* line 572-576: the multiplication loop
RECURSIVE DelayLoop(_, _, _, _)
DelayLoop(bo, d, i, attempt) ==
  IF i < attempt /\ d * bo.FactorNum < bo.MaxDelay * bo.FactorDen
    THEN DelayLoop(bo, (d * bo.FactorNum) \div bo.FactorDen, i + 1, attempt)
    ELSE d

\* line 579-581: clamp to MaxDelay
ClampDelay(bo, d) == IF d > bo.MaxDelay THEN bo.MaxDelay ELSE d

\* the delay before jitter, line 572-581
BaseDelay(bo, attempt) ==
  ClampDelay(bo, DelayLoop(bo, bo.InitialDelay, 0, EffectiveAttempt(bo, attempt)))

\* line 584: jitter := time.Duration(float64(delay) * 0.1)
Jitter(d) == d \div JitterDivisor

\* line 585: delay - jitter + Duration(float64(jitter*2) * rand.Float64()),
\* rand.Float64() in [0, 1): every outcome the call can return
JitterOutcomes(d) ==
  IF Jitter(d) = 0 THEN {d}
  ELSE {d - Jitter(d) + r : r \in 0..(2 * Jitter(d) - 1)}

NextDelayValues(bo, attempt) == JitterOutcomes(BaseDelay(bo, attempt))

\* line 587: b.attempt = attempt
AfterNextDelay(bo, attempt) ==
  [bo EXCEPT !.attempt = EffectiveAttempt(bo, attempt)]

\* ExponentialBackoff.Reset, line 591-593
Reset(bo) == [bo EXCEPT !.attempt = 0]

\* StartTunnel builds the policy: InitialDelay from tunnel.reconnect_delay,
\* MaxDelay and Factor fixed (scaled: MaxDelay 20 ticks, Factor 2.0)
StartTunnelBackoff ==
  [InitialDelay |-> 5, MaxDelay |-> 20, FactorNum |-> 2, FactorDen |-> 1,
   attempt |-> 0]

\* configurations an ExponentialBackoff value can be built with
BackoffConfigs ==
  {[InitialDelay |-> d0, MaxDelay |-> 40, FactorNum |-> f[1],
    FactorDen |-> f[2], attempt |-> 0] :
      d0 \in {0, 1, 10, 15, 20, 30, 40, 50}, f \in {<<2, 1>>, <<3, 2>>, <<3, 1>>}}


\* ============================================================ buffer pool
\* NewNetBuffer(capacity), line 428-441
NewNetBuffer(capacity) == [capacity |-> capacity, free |-> EmptyBag]

\* a byte slice as the pool sees it: cap() and len()
Slice(buf) == [cap |-> buf.cap, len |-> buf.len]
\* line 435-438, sync.Pool's New: make([]byte, capacity)
NewSlice(pool) == [cap |-> pool.capacity, len |-> pool.capacity]
\* sync.Pool.Get: one of the pooled slices, or New's when it has none
PooledSlice(pool) ==
  IF BagToSet(pool.free) # {} THEN CHOOSE x \in BagToSet(pool.free) : TRUE
  ELSE NewSlice(pool)

\* NetBuffer.GetBuf, line 397-399: a pooled buffer, or New's make([]byte, capacity)
GetBufPool(pool) ==
  [pool EXCEPT !.free = IF BagToSet(pool.free) # {}
                          THEN pool.free (-) SetToBag({PooledSlice(pool)})
                          ELSE pool.free]
GetBufValue(pool) ==
  [cap |-> PooledSlice(pool).cap, len |-> PooledSlice(pool).len,
   rel |-> 0, held |-> TRUE]

\* a pool that keeps whatever it is given
PutBufUnchecked(pool, buf) ==
  [pool EXCEPT !.free = pool.free (+) SetToBag({Slice(buf)})]

\* NetBuffer.PutBuf, line 404-409: a buffer of another capacity is not pooled
PutBufPool(pool, buf) ==
  IF buf.cap # pool.capacity THEN pool
  ELSE [pool EXCEPT !.free = pool.free (+) SetToBag({Slice(buf)})]
\* the caller's view of a buffer it has passed to PutBuf
Released(buf) == [buf EXCEPT !.rel = buf.rel + 1]

\* line 625 / 663: the happy path releases only below twice packetBuffCap
HappyPathReleases(buf) == buf.cap < 2 * packetBuffCap

\* ============================================================ statistics
\* a store in place of the add
AtomicStoreUint64(s, field, delta) == [s EXCEPT ![field] = delta]

\* atomic.AddUint64(&s.field, delta), line 465-466 and 470-471
AtomicAddUint64(s, field, delta) == [s EXCEPT ![field] = s[field] + delta]

\* TunnelStats.RecordPacketIn, line 464-467
RecordPacketIn(s, bytes) ==
  AtomicAddUint64(AtomicAddUint64(s, "PacketsIn", 1), "BytesIn", bytes)
\* TunnelStats.RecordPacketOut, line 469-472
RecordPacketOut(s, bytes) ==
  AtomicAddUint64(AtomicAddUint64(s, "PacketsOut", 1), "BytesOut", bytes)
\* TunnelStats.RecordError, line 474-476
RecordError(s) == [s EXCEPT !.Errors = s.Errors + 1]
\* a RecordHandShake that stamps the time and forgets the counter
RecordHandShakeTimeOnly(s, now) ==
  [s EXCEPT !.LastReconnect = now]

\* TunnelStats.RecordHandShake, line 478-483 (LastReconnect: the attempt's number)
RecordHandShake(s, now) ==
  [s EXCEPT !.HandShake = s.HandShake + 1, !.LastReconnect = now]

\* ============================================================ state
IdleLoop == [pc |-> "idle", buf |-> NoBuf, err |-> "nil", n |-> 0, id |-> 0,
             icmp |-> 0]
NoConn == [status |-> "none", ip |-> "none", udp |-> "none", tr |-> "none",
           closeOrder |-> <<>>]

\* the environment makes attempts fail (dial errors, rejections, transport
\* errors) only while another attempt remains to be explored, or once the
\* scope is cancelled: the last attempt connects and forwards until cancelled
FaultAllowed(a) == a < MaxAttempts \/ ctxDone

\* ctx of the copy loops: handleForwarding's child of forwardingCtx, itself a
\* child of MaintainTunnel's ctx (line 598, 732)
Done(a) == hfCancelled[a] \/ ctxDone

\* buffers acquired and not released: held by a loop, or dropped unreleased
Unreleased(loop) == IF loop.buf.held /\ loop.buf.rel = 0 THEN 1 ELSE 0
RECURSIVE SumOver(_, _)
SumOver(f, S) ==
  IF S = {} THEN 0
  ELSE LET x == CHOOSE y \in S : TRUE IN f[x] + SumOver(f, S \ {x})
SessionOutstanding(a) == lost[a] + Unreleased(egress[a]) + Unreleased(ingress[a])
Outstanding == SumOver([a \in Attempts |-> SessionOutstanding(a)], Attempts)

\* a live ctx, an open device and nothing connected yet; attempt is the
\* reconnectAttempt the next handleConnection call is given
InitTunnel(attempt) ==
  /\ ctxDone = FALSE
  /\ devClosed = FALSE
  /\ attempts = 0
  /\ argAttempt = 0
  /\ reconnectAttempt = attempt
  /\ retAttempt = 0
  /\ err = "nil"
  /\ delay = NoDelay
  /\ stats = [PacketsIn |-> 0, PacketsOut |-> 0, BytesIn |-> 0, BytesOut |-> 0,
              Errors |-> 0, HandShake |-> 0, LastReconnect |-> 0]
  /\ conn = [a \in Attempts |-> NoConn]
  /\ hfCancelled = [a \in Attempts |-> FALSE]
  /\ hfReturned = [a \in Attempts |-> FALSE]
  /\ errChan = [a \in Attempts |-> <<>>]
  /\ egress = [a \in Attempts |-> IdleLoop]
  /\ ingress = [a \in Attempts |-> IdleLoop]
  /\ failOrder = [a \in Attempts |-> <<>>]
  /\ lost = [a \in Attempts |-> 0]
  /\ devReads = 0
  /\ ipReads = 0
  /\ postCancelAttempts = 0
  /\ written = [dev |-> <<>>, ip |-> <<>>]

\* MaintainTunnel line 749-751, entered with a live ctx and an open device
InitCommon == InitTunnel(0)

\* no goroutine is inside RecordPacketIn / RecordPacketOut
RecordersInit ==
  /\ recorders = [g \in Recorders |-> [pc |-> "idle", dir |-> "none", n |-> 0]]
  /\ requested = [PacketsIn |-> 0, PacketsOut |-> 0, BytesIn |-> 0, BytesOut |-> 0]

\* NewCachingDNSResolver, resolver.go line 30-44
NewCachingDNSResolver(cacheTTLSeconds) ==
  [CacheTTL |-> IF cacheTTLSeconds <= 0 THEN DefaultCacheTTL ELSE cacheTTLSeconds,
   cache |-> [h \in Hosts |-> NoEntry]]

\* socks.Run line 22-23 has built the resolver; nobody has called it yet
ResolverInit(cacheTTLSeconds) ==
  /\ clock = 0
  /\ resolver = NewCachingDNSResolver(cacheTTLSeconds)
  /\ calls = [c \in Callers |-> NoCall]

\* Service.Run has not been called yet
ServiceInit(pc) ==
  /\ perClient = pc
  /\ rootDone = FALSE
  /\ runPc = "start"
  /\ runResult = "none"
  /\ listener = "none"
  /\ closer = "none"
  /\ device = [o \in Owners |-> "none"]
  /\ lifecycle = [o \in Owners |-> NoLifecycle]
  /\ session = [c \in Clients |-> "none"]

\* ---- config.AppConfig
\* GetDefaultSocksConfig, config.go line 163-170
GetDefaultSocksConfig ==
  [BindAddress |-> "127.0.0.1", Port |-> "1080", Username |-> "", Password |-> ""]

\* GetDefaultTunnelConfig, config.go line 173-190 (durations in seconds)
GetDefaultTunnelConfig ==
  [ConnectPort |-> 443, DNS |-> <<"1.1.1.1", "8.8.8.8">>,
   DNSTimeout |-> DefaultDNSTimeoutSec, UseIPv6 |-> FALSE,
   NoTunnelIPv4 |-> FALSE, NoTunnelIPv6 |-> FALSE, SNIAddress |-> "",
   KeepalivePeriod |-> 30, MTU |-> DefaultMTU, InitialPacketSize |-> 1242,
   ReconnectDelay |-> 1, ConnectionTimeout |-> 30, IdleTimeout |-> 300,
   PerClient |-> FALSE]

\* a configuration as registration leaves it: the identity fields are set,
\* the SNI is internal.ConnectSNI (part_006 line 74)
RegisteredConfig ==
  [PrivateKey |-> "key1", EndpointV4 |-> "162.159.198.1",
   EndpointV6 |-> "2606:4700:103::1", EndpointPubKey |-> "pem1",
   License |-> "lic1", ID |-> "id1", AccessToken |-> "tok1",
   IPv4 |-> "172.16.0.2", IPv6 |-> "2606:4700:110::2",
   Socks |-> GetDefaultSocksConfig,
   Tunnel |-> [GetDefaultTunnelConfig EXCEPT !.SNIAddress = "sni.internal"],
   Logging |-> "logging", Registration |-> "registration"]

\* the proxy command has not been run
NoFlags == [resetConfig |-> FALSE, bindAddress |-> "", port |-> "",
            username |-> "", password |-> ""]
NoServer == [auth |-> "unset", username |-> "", password |-> "",
             client |-> "none", offered |-> "none"]
CommandInit ==
  /\ flags = NoFlags
  /\ cmdPc = "idle"
  /\ server = NoServer
  /\ configFile = RegisteredConfig

\* nothing has called the NetBuffer of the pool specification
NoSlice == [cap |-> 0, len |-> 0]
NoPoolOp == [op |-> "none", buf |-> NoSlice]
\* no MaintainTunnel has been entered: the global names no NetBuffer (0), no
\* copy loop holds a buffer, nothing was released
CopyLoops == {"egress", "ingress"}
NoPoolUse ==
  [id |-> 0, entered |-> {},
   task |-> [t \in Clients \X CopyLoops |-> [from |-> 0, buf |-> NoSlice]],
   put |-> [from |-> 0, to |-> 0]]
PoolOpInit ==
  /\ poolOp = NoPoolOp
  /\ poolUse = NoPoolUse

\* a TimeoutConn nobody has read or written; deadline 0 is the zero time
NoIO == [op |-> "none", invoked |-> FALSE, deadline |-> 0, n |-> 0, err |-> "nil"]
NewTimeoutConn(idleTimeout) ==
  [IdleTimeout |-> idleTimeout, readDeadline |-> 0, writeDeadline |-> 0,
   closed |-> FALSE, last |-> NoIO]
TimeoutConnInit == tconn = NewTimeoutConn(GetDefaultTunnelConfig.IdleTimeout)

\* what the device and the IP connections will deliver: in all, and each
Budget(total, dev, ip) == [total |-> total, dev |-> dev, ip |-> ip]

\* the pool under test, the TimeoutConn and the command, at rest
IdleExtras ==
  /\ PoolOpInit
  /\ TimeoutConnInit
  /\ CommandInit

\* the parts outside the tunnel and the service, at rest
ExtraInit ==
  /\ IdleExtras
  /\ budget = Budget(MaxPackets, MaxPackets, MaxPackets)

\* the parts of the program a specification leaves at rest
RestInit ==
  /\ RecordersInit
  /\ ResolverInit(DefaultDNSTimeoutSec)
  /\ ServiceInit(FALSE)
  /\ cfg = RegisteredConfig
  /\ ExtraInit

\* MaintainTunnel entered with config.MTU = mtu
InitWithMTU(mtu) ==
  /\ InitCommon
  /\ RestInit
  /\ mpc = "top"
  /\ b = StartTunnelBackoff
  /\ packetBufferPool = NewNetBuffer(mtu)

Init == InitWithMTU(DefaultMTU)


\* ============================================================ MaintainTunnel
\* line 754-759: select on ctx.Done() with a default
MaintainTop ==
  /\ mpc = "top"
  /\ mpc' = IF ctxDone THEN "returned" ELSE "call"
  /\ UNCHANGED <<ctxDone, devClosed, attempts, argAttempt, reconnectAttempt,
                 retAttempt, err, b, delay, stats, packetBufferPool, conn,
                 hfCancelled, hfReturned, errChan, egress, ingress, failOrder,
                 lost, devReads, ipReads, postCancelAttempts,
                 written, recordVars, resolverVars, serviceVars, extraVars>>

\* line 761 and 697-706: handleConnection is called with the reconnectAttempt
\* of line 750 (the := on line 761 declares new variables in the loop body)
\* and enters ConnectTunnel
CallHandleConnection ==
  /\ mpc = "call"
  /\ attempts' = attempts + 1
  /\ argAttempt' = reconnectAttempt
  /\ postCancelAttempts' = postCancelAttempts + (IF ctxDone THEN 1 ELSE 0)
  /\ mpc' = "connect"
  /\ UNCHANGED <<ctxDone, devClosed, reconnectAttempt, retAttempt, err, b,
                 delay, stats, packetBufferPool, conn, hfCancelled, hfReturned,
                 errChan, egress, ingress, failOrder, lost, devReads, ipReads,
                 written, recordVars, resolverVars, serviceVars, extraVars>>

\* ConnectTunnel returns an error: line 708-710
ConnectFails ==
  /\ mpc = "connect"
  /\ FaultAllowed(attempts)
  /\ retAttempt' = argAttempt + 1
  /\ err' = "dial"
  /\ mpc' = "check"
  /\ UNCHANGED <<ctxDone, devClosed, attempts, argAttempt, reconnectAttempt, b,
                 delay, stats, packetBufferPool, conn, hfCancelled, hfReturned,
                 errChan, egress, ingress, failOrder, lost, devReads, ipReads,
                 postCancelAttempts,
                 written, recordVars, resolverVars, serviceVars, extraVars>>

\* ConnectTunnel's results on success, line 700-706: the UDP socket, the QUIC
\* transport, the IP connection and the response
Connected(st) ==
  [status |-> st, ip |-> "open", udp |-> "open", tr |-> "open",
   closeOrder |-> <<>>]

\* a teardown that forgets the QUIC transport
TeardownLeavesTransport(c) ==
  [c EXCEPT !.ip = "closed", !.udp = "closed",
            !.closeOrder = <<"ip", "udp">>]

\* the deferred function of line 711-721
Teardown(c) ==
  [c EXCEPT !.ip = "closed", !.udp = "closed", !.tr = "closed",
            !.closeOrder = <<"ip", "udp", "tr">>]

\* a rejection that is not counted as an error
HandshakeRejectedUnrecorded ==
  /\ mpc = "connect"
  /\ FaultAllowed(attempts)
  /\ retAttempt' = argAttempt + 1
  /\ err' = "rejected"
  /\ conn' = [conn EXCEPT ![attempts] = Teardown(Connected("403"))]
  /\ mpc' = "check"
  /\ UNCHANGED <<ctxDone, devClosed, attempts, argAttempt, reconnectAttempt, b,
                 delay, stats, packetBufferPool, hfCancelled, hfReturned, errChan,
                 egress, ingress, failOrder, lost, devReads, ipReads,
                 postCancelAttempts,
                 written, recordVars, resolverVars, serviceVars, extraVars>>

\* line 700-726: ConnectTunnel succeeds with a status other than 200;
\* handleConnection records the error, tears down and returns attempt + 1
HandshakeRejected ==
  /\ mpc = "connect"
  /\ FaultAllowed(attempts)
  /\ stats' = RecordError(stats)
  /\ retAttempt' = argAttempt + 1
  /\ err' = "rejected"
  /\ conn' = [conn EXCEPT ![attempts] = Teardown(Connected("403"))]
  /\ mpc' = "check"
  /\ UNCHANGED <<ctxDone, devClosed, attempts, argAttempt, reconnectAttempt, b,
                 delay, packetBufferPool, hfCancelled, hfReturned, errChan,
                 egress, ingress, failOrder, lost, devReads, ipReads,
                 postCancelAttempts,
                 written, recordVars, resolverVars, serviceVars, extraVars>>

\* line 700-740 and 597-668: ConnectTunnel succeeds with status 200; the
\* handshake is recorded, handleForwarding starts its two goroutines and
\* waits in the select of line 671
StartForwarding ==
  /\ mpc = "connect"
  /\ conn' = [conn EXCEPT ![attempts] = Connected("200")]
  /\ stats' = RecordHandShake(stats, attempts)
  /\ egress' = [egress EXCEPT ![attempts].pc = "top"]
  /\ ingress' = [ingress EXCEPT ![attempts].pc = "top"]
  /\ mpc' = "forwarding"
  /\ UNCHANGED <<ctxDone, devClosed, attempts, argAttempt, reconnectAttempt,
                 retAttempt, err, b, delay, packetBufferPool, hfCancelled,
                 hfReturned, errChan, failOrder, lost, devReads, ipReads,
                 postCancelAttempts,
                 written, recordVars, resolverVars, serviceVars, extraVars>>

\* a select that returns nil when the context is done
ForwardingResultNilOnDone(recvErr) ==
  IF recvErr THEN Head(errChan[attempts]) ELSE "nil"

\* line 671-676: the select returns the received error or ctx.Err(); Go picks
\* among the ready cases at random. Then the deferred cancel of line 599,
\* handleConnection's RecordError (line 740-743), the deferred cancel of line
\* 733, the teardown of line 711-721 and the return of (0, err), line 745.
ForwardingResult(recvErr) ==
  IF recvErr THEN Head(errChan[attempts]) ELSE "canceled"

\* a select that waits on errChan only
ForwardingSelectErrOnly(recvErr) ==
  /\ mpc = "forwarding"
  /\ recvErr
  /\ errChan[attempts] # <<>>
  /\ errChan' = [errChan EXCEPT ![attempts] = Tail(errChan[attempts])]
  /\ err' = Head(errChan[attempts])
  /\ hfCancelled' = [hfCancelled EXCEPT ![attempts] = TRUE]
  /\ hfReturned' = [hfReturned EXCEPT ![attempts] = TRUE]
  /\ stats' = RecordError(stats)
  /\ retAttempt' = 0
  /\ conn' = [conn EXCEPT ![attempts] = Teardown(conn[attempts])]
  /\ mpc' = "check"
  /\ UNCHANGED <<ctxDone, devClosed, attempts, argAttempt, reconnectAttempt,
                 b, delay, packetBufferPool, egress, ingress, failOrder, lost,
                 devReads, ipReads, postCancelAttempts,
                 written, recordVars, resolverVars, serviceVars, extraVars>>

ForwardingSelect(recvErr) ==
  /\ mpc = "forwarding"
  /\ IF recvErr
       THEN /\ errChan[attempts] # <<>>
            /\ errChan' = [errChan EXCEPT ![attempts] = Tail(errChan[attempts])]
       ELSE /\ Done(attempts)
            /\ UNCHANGED errChan
  /\ err' = ForwardingResult(recvErr)
  /\ hfCancelled' = [hfCancelled EXCEPT ![attempts] = TRUE]
  /\ hfReturned' = [hfReturned EXCEPT ![attempts] = TRUE]
  /\ stats' = IF ForwardingResult(recvErr) # "nil" THEN RecordError(stats)
              ELSE stats
  /\ retAttempt' = 0
  /\ conn' = [conn EXCEPT ![attempts] = Teardown(conn[attempts])]
  /\ mpc' = "check"
  /\ UNCHANGED <<ctxDone, devClosed, attempts, argAttempt, reconnectAttempt,
                 b, delay, packetBufferPool, egress, ingress, failOrder, lost,
                 devReads, ipReads, postCancelAttempts,
                 written, recordVars, resolverVars, serviceVars, extraVars>>

\* a loop that dials again at once after an error
AfterHandleConnectionNoBackoff ==
  /\ mpc = "check"
  /\ IF ctxDone
       THEN mpc' = "returned" /\ UNCHANGED <<b, delay>>
       ELSE IF err # "nil"
         THEN /\ b' = AfterNextDelay(b, retAttempt)
              /\ mpc' = "call"
              /\ UNCHANGED delay
         ELSE /\ b' = Reset(b)
              /\ mpc' = "top"
              /\ UNCHANGED delay
  /\ UNCHANGED <<ctxDone, devClosed, attempts, argAttempt, reconnectAttempt,
                 retAttempt, err, stats, packetBufferPool, conn, hfCancelled,
                 hfReturned, errChan, egress, ingress, failOrder, lost,
                 devReads, ipReads, postCancelAttempts,
                 written, recordVars, resolverVars, serviceVars, extraVars>>

\* line 762-778: return when cancelled; back off on an error; else Reset
AfterHandleConnection ==
  /\ mpc = "check"
  /\ IF ctxDone
       THEN mpc' = "returned" /\ UNCHANGED <<b, delay>>
       ELSE IF err # "nil"
         THEN /\ \E d \in NextDelayValues(b, retAttempt) : delay' = d
              /\ b' = AfterNextDelay(b, retAttempt)
              /\ mpc' = "backoff"
         ELSE /\ b' = Reset(b)
              /\ mpc' = "top"
              /\ UNCHANGED delay
  /\ UNCHANGED <<ctxDone, devClosed, attempts, argAttempt, reconnectAttempt,
                 retAttempt, err, stats, packetBufferPool, conn, hfCancelled,
                 hfReturned, errChan, egress, ingress, failOrder, lost,
                 devReads, ipReads, postCancelAttempts,
                 written, recordVars, resolverVars, serviceVars, extraVars>>

\* a loop that returns after the sleep instead of continuing
BackoffElapsedGivesUp ==
  /\ mpc = "backoff"
  /\ mpc' = "returned"
  /\ delay' = NoDelay
  /\ UNCHANGED <<ctxDone, devClosed, attempts, argAttempt, reconnectAttempt,
                 retAttempt, err, b, stats, packetBufferPool, conn, hfCancelled,
                 hfReturned, errChan, egress, ingress, failOrder, lost,
                 devReads, ipReads, postCancelAttempts,
                 written, recordVars, resolverVars, serviceVars, extraVars>>

\* line 770-772: time.After(delay) fires
BackoffElapsed ==
  /\ mpc = "backoff"
  /\ mpc' = "top"
  /\ delay' = NoDelay
  /\ UNCHANGED <<ctxDone, devClosed, attempts, argAttempt, reconnectAttempt,
                 retAttempt, err, b, stats, packetBufferPool, conn, hfCancelled,
                 hfReturned, errChan, egress, ingress, failOrder, lost,
                 devReads, ipReads, postCancelAttempts,
                 written, recordVars, resolverVars, serviceVars, extraVars>>

\* line 773-774: ctx.Done() wins the select
BackoffCancelled ==
  /\ mpc = "backoff"
  /\ ctxDone
  /\ mpc' = "returned"
  /\ delay' = NoDelay
  /\ UNCHANGED <<ctxDone, devClosed, attempts, argAttempt, reconnectAttempt,
                 retAttempt, err, b, stats, packetBufferPool, conn, hfCancelled,
                 hfReturned, errChan, egress, ingress, failOrder, lost,
                 devReads, ipReads, postCancelAttempts,
                 written, recordVars, resolverVars, serviceVars, extraVars>>


\* ============================================================ copy loops
\* a loop lets go of its buffer variable: unreleased buffers are lost
LostAfter(a, buf) ==
  [lost EXCEPT ![a] = lost[a] + (IF buf.held /\ buf.rel = 0 THEN 1 ELSE 0)]

\* errChan <- err on a channel of capacity 2 (line 597)
CanSend(a) == Len(errChan[a]) < 2

\* ---- egress: device -> IP connection, line 602-638
\* line 605-609: return (deferred cancel, line 603) when ctx is done, else GetBuf
EgressTop(a) ==
  /\ egress[a].pc = "top"
  /\ IF Done(a)
       THEN /\ egress' = [egress EXCEPT ![a].pc = "done"]
            /\ hfCancelled' = [hfCancelled EXCEPT ![a] = TRUE]
            /\ UNCHANGED packetBufferPool
       ELSE /\ egress' = [egress EXCEPT ![a].pc = "read",
                                        ![a].buf = GetBufValue(packetBufferPool)]
            /\ packetBufferPool' = GetBufPool(packetBufferPool)
            /\ UNCHANGED hfCancelled
  /\ UNCHANGED <<ctxDone, devClosed, mpc, attempts, argAttempt,
                 reconnectAttempt, retAttempt, err, b, delay, stats, conn,
                 hfReturned, errChan, ingress, failOrder, lost, devReads,
                 ipReads, postCancelAttempts,
                 written, recordVars, resolverVars, serviceVars, extraVars>>

\* line 611, 618: device.ReadPacket delivers a packet of n bytes
EgressReadPacket(a, n) ==
  /\ egress[a].pc = "read"
  /\ ~devClosed
  /\ devReads + ipReads < budget.total
  /\ devReads < budget.dev
  /\ devReads' = devReads + 1
  /\ stats' = RecordPacketOut(stats, n)
  /\ egress' = [egress EXCEPT ![a].pc = "write", ![a].n = n,
                              ![a].id = devReads + 1]
  /\ UNCHANGED <<ctxDone, devClosed, mpc, attempts, argAttempt,
                 reconnectAttempt, retAttempt, err, b, delay, packetBufferPool,
                 conn, hfCancelled, hfReturned, errChan, ingress, failOrder,
                 lost, ipReads, postCancelAttempts,
                 written, recordVars, resolverVars, serviceVars, extraVars>>

\* a failed I/O after which the egress loop sends its error and goes on
EgressFailKeepsLooping(a, e, put) ==
  /\ CanSend(a)
  /\ packetBufferPool' =
       IF put THEN PutBufPool(packetBufferPool, egress[a].buf)
       ELSE packetBufferPool
  /\ lost' = LostAfter(a, IF put THEN Released(egress[a].buf) ELSE egress[a].buf)
  /\ errChan' = [errChan EXCEPT ![a] = Append(errChan[a], e)]
  /\ failOrder' = [failOrder EXCEPT ![a] = Append(failOrder[a], e)]
  /\ egress' = [egress EXCEPT ![a].pc = "top", ![a].err = e,
                              ![a].buf = NoBuf, ![a].n = 0, ![a].id = 0, ![a].icmp = 0]

\* a failed I/O of the egress loop: PutBuf where the code has one, the error
\* is sent on errChan and the goroutine returns, its deferred cancel pending
EgressFail(a, e, put) ==
  /\ CanSend(a)
  /\ packetBufferPool' =
       IF put THEN PutBufPool(packetBufferPool, egress[a].buf)
       ELSE packetBufferPool
  /\ lost' = LostAfter(a, IF put THEN Released(egress[a].buf) ELSE egress[a].buf)
  /\ errChan' = [errChan EXCEPT ![a] = Append(errChan[a], e)]
  /\ failOrder' = [failOrder EXCEPT ![a] = Append(failOrder[a], e)]
  /\ egress' = [egress EXCEPT ![a].pc = "cancel", ![a].err = e,
                              ![a].buf = NoBuf, ![a].n = 0, ![a].id = 0, ![a].icmp = 0]

\* line 612-616: device.ReadPacket fails (the device is closed)
EgressReadFails(a) ==
  /\ egress[a].pc = "read"
  /\ devClosed
  /\ EgressFail(a, "egressRead", TRUE)
  /\ UNCHANGED <<ctxDone, devClosed, mpc, attempts, argAttempt,
                 reconnectAttempt, retAttempt, err, b, delay, stats, conn,
                 hfCancelled, hfReturned, ingress, devReads, ipReads,
                 postCancelAttempts,
                 written, recordVars, resolverVars, serviceVars, extraVars>>

\* line 619, 625-629: ipConn.WritePacket succeeds, with an ICMP reply of icmp
\* bytes (0: none); the buffer is released below twice packetBuffCap
EgressWritePacket(a, icmp) ==
  /\ egress[a].pc = "write"
  /\ conn[a].ip = "open"
  /\ LET buf == egress[a].buf
         after == IF HappyPathReleases(buf) THEN Released(buf) ELSE buf
     IN /\ packetBufferPool' =
             IF HappyPathReleases(buf) THEN PutBufPool(packetBufferPool, buf)
             ELSE packetBufferPool
        /\ IF icmp > 0
             THEN /\ egress' = [egress EXCEPT ![a].pc = "icmp", ![a].buf = after,
                                              ![a].icmp = icmp]
                  /\ UNCHANGED lost
             ELSE /\ egress' = [egress EXCEPT ![a].pc = "top", ![a].buf = NoBuf,
                                              ![a].n = 0, ![a].id = 0]
                  /\ lost' = LostAfter(a, after)
  /\ written' = [written EXCEPT !.ip = Append(@, egress[a].id)]
  /\ UNCHANGED <<ctxDone, devClosed, mpc, attempts, argAttempt,
                 reconnectAttempt, retAttempt, err, b, delay, stats, conn,
                 hfCancelled, hfReturned, errChan, ingress, failOrder, devReads,
                 ipReads, postCancelAttempts,
                 recordVars, resolverVars, serviceVars, extraVars>>

\* line 620-624: ipConn.WritePacket fails; closedOnly: because
\* handleConnection closed the connection, otherwise a transport error
EgressWriteFails(a, closedOnly) ==
  /\ egress[a].pc = "write"
  /\ IF closedOnly THEN conn[a].ip = "closed"
     ELSE conn[a].ip = "open" /\ FaultAllowed(a)
  /\ EgressFail(a, "egressWrite", TRUE)
  /\ UNCHANGED <<ctxDone, devClosed, mpc, attempts, argAttempt,
                 reconnectAttempt, retAttempt, err, b, delay, stats, conn,
                 hfCancelled, hfReturned, ingress, devReads, ipReads,
                 postCancelAttempts,
                 written, recordVars, resolverVars, serviceVars, extraVars>>

\* an ICMP write that counts the reply before it writes it
EgressIcmpCountsFirst(a) ==
  /\ egress[a].pc = "icmp"
  /\ stats' = RecordPacketIn(stats, egress[a].icmp)
  /\ IF devClosed
       THEN EgressFail(a, "egressIcmp", FALSE)
       ELSE /\ egress' = [egress EXCEPT ![a].pc = "top", ![a].buf = NoBuf,
                                        ![a].n = 0, ![a].id = 0, ![a].icmp = 0]
            /\ lost' = LostAfter(a, egress[a].buf)
            /\ UNCHANGED <<packetBufferPool, errChan, failOrder>>
  /\ UNCHANGED <<ctxDone, devClosed, mpc, attempts, argAttempt,
                 reconnectAttempt, retAttempt, err, b, delay, conn,
                 hfCancelled, hfReturned, ingress, devReads, ipReads,
                 postCancelAttempts,
                 written, recordVars, resolverVars, serviceVars, extraVars>>

\* line 629-635: the ICMP reply is written to the device
EgressIcmp(a) ==
  /\ egress[a].pc = "icmp"
  /\ IF devClosed
       THEN /\ EgressFail(a, "egressIcmp", FALSE)
            /\ UNCHANGED stats
       ELSE /\ stats' = RecordPacketIn(stats, egress[a].icmp)
            /\ egress' = [egress EXCEPT ![a].pc = "top", ![a].buf = NoBuf,
                                        ![a].n = 0, ![a].id = 0, ![a].icmp = 0]
            /\ lost' = LostAfter(a, egress[a].buf)
            /\ UNCHANGED <<packetBufferPool, errChan, failOrder>>
  /\ UNCHANGED <<ctxDone, devClosed, mpc, attempts, argAttempt,
                 reconnectAttempt, retAttempt, err, b, delay, conn,
                 hfCancelled, hfReturned, ingress, devReads, ipReads,
                 postCancelAttempts,
                 written, recordVars, resolverVars, serviceVars, extraVars>>

\* line 603: the deferred cancel() of a loop that returns after a send
EgressExit(a) ==
  /\ egress[a].pc = "cancel"
  /\ hfCancelled' = [hfCancelled EXCEPT ![a] = TRUE]
  /\ egress' = [egress EXCEPT ![a].pc = "done"]
  /\ UNCHANGED <<ctxDone, devClosed, mpc, attempts, argAttempt,
                 reconnectAttempt, retAttempt, err, b, delay, stats,
                 packetBufferPool, conn, hfReturned, errChan, ingress,
                 failOrder, lost, devReads, ipReads, postCancelAttempts,
                 written, recordVars, resolverVars, serviceVars, extraVars>>

\* ---- ingress: IP connection -> device, line 641-668
\* line 644-648
IngressTop(a) ==
  /\ ingress[a].pc = "top"
  /\ IF Done(a)
       THEN /\ ingress' = [ingress EXCEPT ![a].pc = "done"]
            /\ hfCancelled' = [hfCancelled EXCEPT ![a] = TRUE]
            /\ UNCHANGED packetBufferPool
       ELSE /\ ingress' = [ingress EXCEPT ![a].pc = "read",
                                          ![a].buf = GetBufValue(packetBufferPool)]
            /\ packetBufferPool' = GetBufPool(packetBufferPool)
            /\ UNCHANGED hfCancelled
  /\ UNCHANGED <<ctxDone, devClosed, mpc, attempts, argAttempt,
                 reconnectAttempt, retAttempt, err, b, delay, stats, conn,
                 hfReturned, errChan, egress, failOrder, lost, devReads,
                 ipReads, postCancelAttempts,
                 written, recordVars, resolverVars, serviceVars, extraVars>>

\* line 650, 657: ipConn.ReadPacket delivers a packet of n bytes
IngressReadPacket(a, n) ==
  /\ ingress[a].pc = "read"
  /\ conn[a].ip = "open"
  /\ devReads + ipReads < budget.total
  /\ ipReads < budget.ip
  /\ ipReads' = ipReads + 1
  /\ stats' = RecordPacketIn(stats, n)
  /\ ingress' = [ingress EXCEPT ![a].pc = "write", ![a].n = n,
                                ![a].id = ipReads + 1]
  /\ UNCHANGED <<ctxDone, devClosed, mpc, attempts, argAttempt,
                 reconnectAttempt, retAttempt, err, b, delay, packetBufferPool,
                 conn, hfCancelled, hfReturned, errChan, egress, failOrder,
                 lost, devReads, postCancelAttempts,
                 written, recordVars, resolverVars, serviceVars, extraVars>>

\* a failed I/O of the ingress loop: PutBuf, the error is sent on errChan and
\* the goroutine returns, its deferred cancel pending
IngressFail(a, e) ==
  /\ CanSend(a)
  /\ packetBufferPool' = PutBufPool(packetBufferPool, ingress[a].buf)
  /\ lost' = LostAfter(a, Released(ingress[a].buf))
  /\ errChan' = [errChan EXCEPT ![a] = Append(errChan[a], e)]
  /\ failOrder' = [failOrder EXCEPT ![a] = Append(failOrder[a], e)]
  /\ ingress' = [ingress EXCEPT ![a].pc = "cancel", ![a].err = e,
                                ![a].buf = NoBuf, ![a].n = 0, ![a].id = 0]

\* line 651-655: ipConn.ReadPacket fails; closedOnly: because handleConnection
\* closed the connection, otherwise a transport error on the open connection
IngressReadFails(a, closedOnly) ==
  /\ ingress[a].pc = "read"
  /\ IF closedOnly THEN conn[a].ip = "closed"
     ELSE conn[a].ip = "open" /\ FaultAllowed(a)
  /\ IngressFail(a, "ingressRead")
  /\ UNCHANGED <<ctxDone, devClosed, mpc, attempts, argAttempt,
                 reconnectAttempt, retAttempt, err, b, delay, stats, conn,
                 hfCancelled, hfReturned, egress, devReads, ipReads,
                 postCancelAttempts,
                 written, recordVars, resolverVars, serviceVars, extraVars>>

\* line 658-665: device.WritePacket, failing when the device is closed
IngressWritePacket(a) ==
  /\ ingress[a].pc = "write"
  /\ LET buf == ingress[a].buf IN
     IF devClosed
       THEN /\ IngressFail(a, "ingressWrite")
            /\ UNCHANGED written
       ELSE /\ written' = [written EXCEPT !.dev = Append(@, ingress[a].id)]
            /\ packetBufferPool' =
                 IF HappyPathReleases(buf) THEN PutBufPool(packetBufferPool, buf)
                 ELSE packetBufferPool
            /\ ingress' = [ingress EXCEPT ![a].pc = "top", ![a].buf = NoBuf,
                                          ![a].n = 0, ![a].id = 0]
            /\ lost' = LostAfter(a, IF HappyPathReleases(buf) THEN Released(buf)
                                    ELSE buf)
            /\ UNCHANGED <<errChan, failOrder>>
  /\ UNCHANGED <<ctxDone, devClosed, mpc, attempts, argAttempt,
                 reconnectAttempt, retAttempt, err, b, delay, stats, conn,
                 hfCancelled, hfReturned, egress, devReads, ipReads,
                 postCancelAttempts,
                 recordVars, resolverVars, serviceVars, extraVars>>

\* line 642: the deferred cancel()
IngressExit(a) ==
  /\ ingress[a].pc = "cancel"
  /\ hfCancelled' = [hfCancelled EXCEPT ![a] = TRUE]
  /\ ingress' = [ingress EXCEPT ![a].pc = "done"]
  /\ UNCHANGED <<ctxDone, devClosed, mpc, attempts, argAttempt,
                 reconnectAttempt, retAttempt, err, b, delay, stats,
                 packetBufferPool, conn, hfReturned, errChan, egress,
                 failOrder, lost, devReads, ipReads, postCancelAttempts,
                 written, recordVars, resolverVars, serviceVars, extraVars>>

\* ============================================================ environment
\* the caller cancels MaintainTunnel's ctx (signal, or the per-client cancel)
CancelCtx ==
  /\ ~ctxDone
  /\ mpc # "returned"
  /\ ctxDone' = TRUE
  /\ UNCHANGED <<devClosed, mpc, attempts, argAttempt, reconnectAttempt,
                 retAttempt, err, b, delay, stats, packetBufferPool, conn,
                 hfCancelled, hfReturned, errChan, egress, ingress, failOrder,
                 lost, devReads, ipReads, postCancelAttempts,
                 written, recordVars, resolverVars, serviceVars, extraVars>>

\* the owner closes the device after cancelling: dev.Close()
CloseDevice ==
  /\ ctxDone
  /\ ~devClosed
  /\ devClosed' = TRUE
  /\ UNCHANGED <<ctxDone, mpc, attempts, argAttempt, reconnectAttempt,
                 retAttempt, err, b, delay, stats, packetBufferPool, conn,
                 hfCancelled, hfReturned, errChan, egress, ingress, failOrder,
                 lost, devReads, ipReads, postCancelAttempts,
                 written, recordVars, resolverVars, serviceVars, extraVars>>

\* ============================================================ specification
MaintainStep ==
  \/ MaintainTop
  \/ CallHandleConnection
  \/ ConnectFails
  \/ HandshakeRejected
  \/ StartForwarding
  \/ \E r \in BOOLEAN : ForwardingSelect(r)
  \/ AfterHandleConnection
  \/ BackoffElapsed
  \/ BackoffCancelled

\* the steps of a copy loop that do not wait for a packet to arrive
EgressStep(a) ==
  \/ EgressTop(a)
  \/ EgressReadFails(a)
  \/ \E icmp \in IcmpSizes : EgressWritePacket(a, icmp)
  \/ EgressWriteFails(a, TRUE)
  \/ EgressIcmp(a)
  \/ EgressExit(a)

IngressStep(a) ==
  \/ IngressTop(a)
  \/ IngressReadFails(a, TRUE)
  \/ IngressWritePacket(a)
  \/ IngressExit(a)

\* packets arriving, transport errors, cancellation, device close
EnvStep ==
  \/ \E a \in Attempts, n \in PktSizes : EgressReadPacket(a, n)
  \/ \E a \in Attempts, n \in PktSizes : IngressReadPacket(a, n)
  \/ \E a \in Attempts : EgressWriteFails(a, FALSE)
  \/ \E a \in Attempts : IngressReadFails(a, FALSE)
  \/ CancelCtx
  \/ CloseDevice

Next ==
  \/ MaintainStep
  \/ \E a \in Attempts : EgressStep(a)
  \/ \E a \in Attempts : IngressStep(a)
  \/ EnvStep

Spec == Init /\ [][Next]_vars

\* goroutines are scheduled, timers fire, ConnectTunnel returns, I/O on a
\* closed connection or device fails, and the owner of a cancelled tunnel
\* closes its device; packets, transport errors and cancellation owe nothing
Fairness ==
  /\ WF_vars(MaintainStep)
  /\ WF_vars(CloseDevice)
  /\ \A a \in Attempts : WF_vars(EgressStep(a))
  /\ \A a \in Attempts : WF_vars(IngressStep(a))

FairSpec == Spec /\ Fairness

\* ---- handleConnection called with any reconnectAttempt
AttemptInputs == {0, 2}

ConnectionInit ==
  /\ \E k \in AttemptInputs : InitTunnel(k)
  /\ RestInit
  /\ mpc = "top"
  /\ b = StartTunnelBackoff
  /\ packetBufferPool = NewNetBuffer(DefaultMTU)

ConnectionSpec == ConnectionInit /\ [][Next]_vars

\* ---- sessions that carry several packets: one from the device and two
\* more from the IP connections than the main specification delivers
OrderInit ==
  /\ InitCommon
  /\ RecordersInit
  /\ ResolverInit(DefaultDNSTimeoutSec)
  /\ ServiceInit(FALSE)
  /\ cfg = RegisteredConfig
  /\ IdleExtras
  /\ budget = Budget(MaxPackets + 2, MaxPackets, MaxPackets + 1)
  /\ mpc = "top"
  /\ b = StartTunnelBackoff
  /\ packetBufferPool = NewNetBuffer(DefaultMTU)

OrderSpec == OrderInit /\ [][Next]_vars

TypeOK ==
  /\ ctxDone \in BOOLEAN
  /\ mpc \in {"top", "call", "connect", "forwarding", "check", "backoff", "returned", "pure", "none"}
  /\ attempts \in 0..MaxAttempts
  /\ \A a \in Attempts : Len(errChan[a]) <= 2


\* ============================================================ NextDelay alone
\* ExponentialBackoff values of any configuration, NextDelay called with any
\* attempt argument and Reset called in between
BackoffInit ==
  /\ InitCommon
  /\ RestInit
  /\ mpc = "pure"
  /\ b \in BackoffConfigs
  /\ packetBufferPool = NewNetBuffer(DefaultMTU)

\* delay := b.NextDelay(k), line 566-589
CallNextDelay(k) ==
  /\ mpc = "pure"
  /\ EffectiveAttempt(b, k) <= MaxK
  /\ retAttempt' = k
  /\ \E d \in NextDelayValues(b, k) : delay' = d
  /\ b' = AfterNextDelay(b, k)
  /\ UNCHANGED <<ctxDone, devClosed, mpc, attempts, argAttempt,
                 reconnectAttempt, err, stats, packetBufferPool, conn,
                 hfCancelled, hfReturned, errChan, egress, ingress, failOrder,
                 lost, devReads, ipReads, postCancelAttempts,
                 written, recordVars, resolverVars, serviceVars, extraVars>>

\* b.Reset(), line 591-593
CallReset ==
  /\ mpc = "pure"
  /\ b.attempt > 0
  /\ b' = Reset(b)
  /\ delay' = NoDelay
  /\ UNCHANGED <<ctxDone, devClosed, mpc, attempts, argAttempt,
                 reconnectAttempt, retAttempt, err, stats, packetBufferPool,
                 conn, hfCancelled, hfReturned, errChan, egress, ingress,
                 failOrder, lost, devReads, ipReads, postCancelAttempts,
                 written, recordVars, resolverVars, serviceVars, extraVars>>

BackoffNext ==
  \/ \E k \in 0..MaxK : CallNextDelay(k)
  \/ CallReset

BackoffSpec == BackoffInit /\ [][BackoffNext]_vars


\* ============================================================ TunnelStats alone
\* goroutines call RecordPacketIn and RecordPacketOut on one TunnelStats; each
\* call is two atomic adds, and the calls of different goroutines interleave
\* between them
StatsInit ==
  /\ InitCommon
  /\ RestInit
  /\ mpc = "none"
  /\ b = StartTunnelBackoff
  /\ packetBufferPool = NewNetBuffer(DefaultMTU)

\* the egress loop records packets out and ICMP replies in (line 618, 635),
\* the ingress loop packets in (line 657); a leftover egress loop still
\* records what it reads from the device
RecordDirs(g) ==
  CASE g = "egress" -> {"In", "Out"}
    [] g = "ingress" -> {"In"}
    [] g = "leftover" -> {"Out"}

\* line 465 / 470: atomic.AddUint64(&s.Packets<dir>, 1)
RecordPacketsAdd(g, dir, n) ==
  /\ mpc = "none"
  /\ recorders[g].pc = "idle"
  /\ dir \in RecordDirs(g)
  /\ requested.PacketsIn + requested.PacketsOut < MaxRecords
  /\ stats' = AtomicAddUint64(stats, "Packets" \o dir, 1)
  /\ recorders' = [recorders EXCEPT ![g] = [pc |-> "bytes", dir |-> dir, n |-> n]]
  /\ requested' = [requested EXCEPT !["Packets" \o dir] = @ + 1,
                                    !["Bytes" \o dir] = @ + n]
  /\ UNCHANGED <<ctxDone, devClosed, mpc, attempts, argAttempt,
                 reconnectAttempt, retAttempt, err, b, delay, packetBufferPool,
                 conn, hfCancelled, hfReturned, errChan, egress, ingress,
                 failOrder, lost, devReads, ipReads, postCancelAttempts, written,
                 resolverVars, serviceVars, extraVars>>

\* line 466 / 471: atomic.AddUint64(&s.Bytes<dir>, uint64(bytes)), and return
RecordBytesAdd(g) ==
  /\ mpc = "none"
  /\ recorders[g].pc = "bytes"
  /\ stats' = AtomicAddUint64(stats, "Bytes" \o recorders[g].dir, recorders[g].n)
  /\ recorders' = [recorders EXCEPT ![g] = [pc |-> "idle", dir |-> "none", n |-> 0]]
  /\ UNCHANGED <<ctxDone, devClosed, mpc, attempts, argAttempt,
                 reconnectAttempt, retAttempt, err, b, delay, packetBufferPool,
                 conn, hfCancelled, hfReturned, errChan, egress, ingress,
                 failOrder, lost, devReads, ipReads, postCancelAttempts, written,
                 requested, resolverVars, serviceVars, extraVars>>

StatsNext ==
  \/ \E g \in Recorders, dir \in {"In", "Out"}, n \in RecordSizes :
       RecordPacketsAdd(g, dir, n)
  \/ \E g \in Recorders : RecordBytesAdd(g)

StatsSpec == StatsInit /\ [][StatsNext]_vars

\* ============================================================ CachingDNSResolver
\* the resolver socks.Run builds, called by concurrent SOCKS requests
ResolverSpecInit ==
  /\ InitCommon
  /\ mpc = "none"
  /\ b = StartTunnelBackoff
  /\ packetBufferPool = NewNetBuffer(DefaultMTU)
  /\ RecordersInit
  /\ ServiceInit(FALSE)
  /\ cfg = RegisteredConfig
  /\ ExtraInit
  /\ \E ttl \in TTLInputs : ResolverInit(ttl)

\* a hit test with the comparison turned round
cacheHitAfter(r, name, t) ==
  r.cache[name].exists /\ t > r.cache[name].ExpiresAt

\* resolver.go line 55-57: exists && now.Before(entry.ExpiresAt)
cacheHit(r, name, t) ==
  r.cache[name].exists /\ t < r.cache[name].ExpiresAt

\* a result handling that drops the entry of a name whose lookup failed
ResultHandledDroppingEntry(r, name, result, t) ==
  IF result.err # "nil"
    THEN [r EXCEPT !.cache[name] = NoEntry]
    ELSE [r EXCEPT !.cache[name] =
            [IP |-> result.ip, ExpiresAt |-> t + r.CacheTTL, exists |-> TRUE]]

\* resolver.go line 98-108: an error result is returned as it is; an address
\* is stored with ExpiresAt = now.Add(CacheTTL seconds), now being t
ResultHandled(r, name, result, t) ==
  IF result.err # "nil"
    THEN r
    ELSE [r EXCEPT !.cache[name] =
            [IP |-> result.ip, ExpiresAt |-> t + r.CacheTTL, exists |-> TRUE]]

\* what the lookup goroutine sends, line 79-90
LookupResult(outcome) ==
  CASE outcome = "lookupErr" -> [ip |-> "nil", err |-> "lookupErr"]
    [] outcome = "noAddrs" -> [ip |-> "nil", err |-> "ErrClosed"]
    [] OTHER -> [ip |-> outcome, err |-> "nil"]

\* line 52-91: the cache is read and time.Now() taken under the read lock; a
\* hit returns the entry's address, else the lookup goroutine is started and
\* the caller waits in the select of line 94
ResolveStart(c, name) ==
  /\ calls[c].pc \in {"idle", "done"}
  /\ calls' = [calls EXCEPT ![c] =
       IF cacheHit(resolver, name, clock)
         THEN [NoCall EXCEPT !.pc = "done", !.name = name,
                             !.ip = resolver.cache[name].IP, !.hit = TRUE]
         ELSE [NoCall EXCEPT !.pc = "select", !.name = name, !.now = clock,
                             !.lookup = "running"]]
  /\ UNCHANGED <<tunnelVars, recordVars, clock, resolver, serviceVars, extraVars>>

\* line 79-90: LookupIP returns and the goroutine sends on resultChan
LookupReturns(c, outcome) ==
  /\ calls[c].lookup = "running"
  /\ calls' = [calls EXCEPT ![c].lookup = "sent",
                            ![c].resultChan = <<LookupResult(outcome)>>]
  /\ UNCHANGED <<tunnelVars, recordVars, clock, resolver, serviceVars, extraVars>>

\* line 94-111: the select takes ctx.Done() or the result, at random when
\* both are ready; a lookup goroutine left behind touches nothing shared
ResolveSelect(c, recv) ==
  /\ calls[c].pc = "select"
  /\ IF recv
       THEN /\ calls[c].resultChan # <<>>
            /\ LET result == Head(calls[c].resultChan) IN
               /\ resolver' = ResultHandled(resolver, calls[c].name, result,
                                            calls[c].now)
               /\ calls' = [calls EXCEPT ![c] =
                    [NoCall EXCEPT !.pc = "done", !.name = calls[c].name,
                                   !.ip = result.ip, !.err = result.err]]
       ELSE /\ calls[c].ctxDone
            /\ calls' = [calls EXCEPT ![c] =
                 [NoCall EXCEPT !.pc = "done", !.name = calls[c].name,
                                !.err = "canceled"]]
            /\ UNCHANGED resolver
  /\ UNCHANGED <<tunnelVars, recordVars, clock, serviceVars, extraVars>>

\* the caller's context is cancelled while it waits
CancelCall(c) ==
  /\ calls[c].pc = "select"
  /\ ~calls[c].ctxDone
  /\ calls' = [calls EXCEPT ![c].ctxDone = TRUE]
  /\ UNCHANGED <<tunnelVars, recordVars, clock, resolver, serviceVars, extraVars>>

\* ClearCache, line 115-119
ClearCache ==
  /\ \E h \in Hosts : resolver.cache[h].exists
  /\ resolver' = [resolver EXCEPT !.cache = [h \in Hosts |-> NoEntry]]
  /\ UNCHANGED <<tunnelVars, recordVars, clock, calls, serviceVars, extraVars>>

\* a second passes
Tick ==
  /\ clock < MaxTime
  /\ clock' = clock + 1
  /\ UNCHANGED <<tunnelVars, recordVars, resolver, calls, serviceVars, extraVars>>

ResolverNext ==
  \/ \E c \in Callers, h \in Hosts : ResolveStart(c, h)
  \/ \E c \in Callers, o \in IPs \cup {"lookupErr", "noAddrs"} : LookupReturns(c, o)
  \/ \E c \in Callers, recv \in BOOLEAN : ResolveSelect(c, recv)
  \/ \E c \in Callers : CancelCall(c)
  \/ ClearCache
  \/ Tick

ResolverSpec == ResolverSpecInit /\ [][ResolverNext]_vars

\* ============================================================ Service.Run
\* Service.Run and socks.Run, each MaintainTunnel goroutine reduced to
\* whether it runs and whether its scope is cancelled
ServiceSpecInit ==
  /\ InitCommon
  /\ mpc = "none"
  /\ b = StartTunnelBackoff
  /\ packetBufferPool = NewNetBuffer(DefaultMTU)
  /\ RecordersInit
  /\ ResolverInit(DefaultDNSTimeoutSec)
  /\ ExtraInit
  /\ \E pc \in BOOLEAN :
       /\ ServiceInit(pc)
       /\ cfg = [RegisteredConfig EXCEPT !.Tunnel.PerClient = pc]

\* ---- setup.go: addresses
\* the strings net.ParseIP and netip.ParseAddr can parse
ValidAddrs == {"162.159.198.1", "2606:4700:103::1", "172.16.0.2",
               "2606:4700:110::2", "1.1.1.1", "8.8.8.8"}

\* net.ParseIP: nil for a string it cannot parse, and no error
ParseIP(str) == IF str \in ValidAddrs THEN str ELSE "nil"

\* netip.ParseAddr: the zero Addr and an error for a string it cannot parse
ParseAddr(str) ==
  IF str \in ValidAddrs THEN [addr |-> str, err |-> "nil"]
  ELSE [addr |-> "zero", err |-> "parse"]

\* PrepareNetworkConfig, setup.go line 44-78
PrepareNetworkConfig(c) ==
  LET endpoint == [IP |-> ParseIP(IF c.Tunnel.UseIPv6 THEN c.EndpointV6
                                  ELSE c.EndpointV4),
                   Port |-> c.Tunnel.ConnectPort]
      v4 == IF c.Tunnel.NoTunnelIPv4 THEN <<>> ELSE <<ParseAddr(c.IPv4)>>
      v6 == IF c.Tunnel.NoTunnelIPv6 THEN <<>> ELSE <<ParseAddr(c.IPv6)>>
      dns == [i \in 1..Len(c.Tunnel.DNS) |-> ParseAddr(c.Tunnel.DNS[i])]
      failed(e) == [endpoint |-> "nil", locals |-> <<>>, dnsAddrs |-> <<>>,
                    err |-> e]
      addrs(seq) == [i \in 1..Len(seq) |-> seq[i].addr]
  IN IF v4 # <<>> /\ v4[1].err # "nil"
       THEN failed("failed to parse IPv4 address")
     ELSE IF v6 # <<>> /\ v6[1].err # "nil"
       THEN failed("failed to parse IPv6 address")
     ELSE IF \E i \in 1..Len(dns) : dns[i].err # "nil"
       THEN failed("failed to parse DNS server")
     ELSE [endpoint |-> endpoint, locals |-> addrs(v4 \o v6),
           dnsAddrs |-> addrs(dns), err |-> "nil"]

\* where Service.Run can fail before the accept loop
StartupStages == {"prepare", "network", "createTun", "listen"}

\* the scope of a lifecycle: ctx itself for the shared one (service.go line
\* 40), a child of ctx with its own cancel for a client's (part_002 line 83)
ScopeDone(o) == rootDone \/ lifecycle[o].cancelled

\* service.go line 23-41 and part_002 line 22-63, all succeeding: the shared
\* device is created, StartTunnel launches MaintainTunnel on it, the listener
\* is bound and the goroutine that closes it on ctx.Done() is started
ServiceRunStarts ==
  /\ runPc = "start"
  /\ PrepareNetworkConfig(cfg).err = "nil"
  /\ device' = [device EXCEPT ![Shared] = "open"]
  /\ lifecycle' = [lifecycle EXCEPT ![Shared].state = "running"]
  /\ listener' = "open"
  /\ closer' = "waiting"
  /\ runPc' = "accept"
  /\ UNCHANGED <<tunnelVars, recordVars, resolverVars, extraVars, perClient, rootDone,
                 runResult, session>>

\* a startup step fails: PrepareTLSConfig (service.go line 23-26),
\* PrepareNetworkConfig (line 28-31) or CreateTun (line 34-37), nothing created
\* yet, or socks.Run before its loop (part_002 line 25-58, after StartTunnel;
\* the deferred dev.Close() of service.go line 38 runs)
ServiceRunFails(stage) ==
  /\ runPc = "start"
  /\ stage # "prepare" =>
       ((stage = "network") <=> (PrepareNetworkConfig(cfg).err # "nil"))
  /\ runPc' = "returned"
  /\ runResult' = stage
  /\ IF stage = "listen"
       THEN /\ device' = [device EXCEPT ![Shared] = "closed"]
            /\ lifecycle' = [lifecycle EXCEPT ![Shared].state = "running"]
       ELSE UNCHANGED <<device, lifecycle>>
  /\ UNCHANGED <<tunnelVars, recordVars, resolverVars, extraVars, perClient, rootDone,
                 listener, closer, session>>

\* part_002 line 66, 75-97: a connection of client c is accepted; per client
\* a device is created (tunOk: CreateTun succeeds), a lifecycle is started on
\* a child scope and a goroutine serves the connection
AcceptClient(c, tunOk) ==
  /\ runPc = "accept"
  /\ listener = "open"
  /\ session[c] = "none"
  /\ IF perClient
       THEN IF tunOk
              THEN /\ device' = [device EXCEPT ![c] = "open"]
                   /\ lifecycle' = [lifecycle EXCEPT ![c].state = "running"]
                   /\ session' = [session EXCEPT ![c] = "open"]
              ELSE /\ session' = [session EXCEPT ![c] = "refused"]
                   /\ UNCHANGED <<device, lifecycle>>
       ELSE /\ tunOk
            /\ session' = [session EXCEPT ![c] = "open"]
            /\ UNCHANGED <<device, lifecycle>>
  /\ UNCHANGED <<tunnelVars, recordVars, resolverVars, extraVars, perClient, rootDone,
                 runPc, runResult, listener, closer>>

\* part_002 line 66-73: Accept returns an error, because the listener was
\* closed or (transient) for another reason while it is open; with ctx
\* cancelled Run returns nil and Service.Run's deferred dev.Close() runs,
\* otherwise the loop logs and continues
AcceptFails(transient) ==
  /\ runPc = "accept"
  /\ listener = IF transient THEN "open" ELSE "closed"
  /\ IF rootDone
       THEN /\ runPc' = "returned"
            /\ runResult' = "nil"
            /\ device' = [device EXCEPT ![Shared] = "closed"]
       ELSE UNCHANGED <<runPc, runResult, device>>
  /\ UNCHANGED <<tunnelVars, recordVars, resolverVars, extraVars, perClient, rootDone,
                 listener, closer, lifecycle, session>>

\* part_002 line 60-63: <-ctx.Done(); l.Close()
CloserRuns ==
  /\ closer = "waiting"
  /\ rootDone
  /\ listener' = "closed"
  /\ closer' = "done"
  /\ UNCHANGED <<tunnelVars, recordVars, resolverVars, extraVars, perClient, rootDone,
                 runPc, runResult, device, lifecycle, session>>

\* the ctx given to Service.Run is cancelled (signal)
CancelRoot ==
  /\ ~rootDone
  /\ rootDone' = TRUE
  /\ UNCHANGED <<tunnelVars, recordVars, resolverVars, extraVars, perClient, runPc,
                 runResult, listener, closer, device, lifecycle, session>>

\* MaintainTunnel sees its scope cancelled and returns (tunnel.go line
\* 754-759, 762-764, 773-774)
LifecycleReturns(o) ==
  /\ lifecycle[o].state = "running"
  /\ ScopeDone(o)
  /\ lifecycle' = [lifecycle EXCEPT ![o].state = "returned"]
  /\ UNCHANGED <<tunnelVars, recordVars, resolverVars, extraVars, perClient, rootDone,
                 runPc, runResult, listener, closer, device, session>>

\* ServeConn returns: the client closed its connection or it idled out
SessionEnds(c) ==
  /\ session[c] = "open"
  /\ session' = [session EXCEPT ![c] = "ended"]
  /\ UNCHANGED <<tunnelVars, recordVars, resolverVars, extraVars, perClient, rootDone,
                 runPc, runResult, listener, closer, device, lifecycle>>

\* a cancel that reaches the scopes of all clients
ClientCancelAll(c) ==
  /\ perClient
  /\ session[c] = "ended"
  /\ lifecycle' = [o \in Owners |->
                     IF o \in Clients THEN [lifecycle[o] EXCEPT !.cancelled = TRUE]
                     ELSE lifecycle[o]]
  /\ session' = [session EXCEPT ![c] = "cancelled"]
  /\ UNCHANGED <<tunnelVars, recordVars, resolverVars, extraVars, perClient, rootDone,
                 runPc, runResult, listener, closer, device>>

\* part_002 line 90: cancel() of the client's own scope
ClientCancel(c) ==
  /\ perClient
  /\ session[c] = "ended"
  /\ lifecycle' = [lifecycle EXCEPT ![c].cancelled = TRUE]
  /\ session' = [session EXCEPT ![c] = "cancelled"]
  /\ UNCHANGED <<tunnelVars, recordVars, resolverVars, extraVars, perClient, rootDone,
                 runPc, runResult, listener, closer, device>>

\* part_002 line 91: dev.Close() of the client's own device
ClientCloseDevice(c) ==
  /\ session[c] = "cancelled"
  /\ device' = [device EXCEPT ![c] = "closed"]
  /\ session' = [session EXCEPT ![c] = "closed"]
  /\ UNCHANGED <<tunnelVars, recordVars, resolverVars, extraVars, perClient, rootDone,
                 runPc, runResult, listener, closer, lifecycle>>

\* the goroutine of part_002 line 87-92 after ServeConn has returned
ClientStep(c) == ClientCancel(c) \/ ClientCloseDevice(c)

ServiceNext ==
  \/ ServiceRunStarts
  \/ \E stage \in StartupStages : ServiceRunFails(stage)
  \/ \E c \in Clients, tunOk \in BOOLEAN : AcceptClient(c, tunOk)
  \/ \E transient \in BOOLEAN : AcceptFails(transient)
  \/ CloserRuns
  \/ CancelRoot
  \/ \E o \in Owners : LifecycleReturns(o)
  \/ \E c \in Clients : SessionEnds(c)
  \/ \E c \in Clients : ClientStep(c)

ServiceSpec == ServiceSpecInit /\ [][ServiceNext]_vars

\* ---- Service.Run's startup on configurations with any addresses
AddrInputs(good) == {good, "not-an-address"}
DNSInputs == {<<>>, <<"1.1.1.1", "8.8.8.8">>, <<"1.1.1.1", "not-an-address">>,
              <<"not-an-address">>}
StartupConfigs ==
  {[RegisteredConfig EXCEPT !.EndpointV4 = e4, !.EndpointV6 = e6, !.IPv4 = a4,
                            !.IPv6 = a6, !.Tunnel.UseIPv6 = u6,
                            !.Tunnel.NoTunnelIPv4 = n4,
                            !.Tunnel.NoTunnelIPv6 = n6, !.Tunnel.DNS = dns] :
     e4 \in AddrInputs(RegisteredConfig.EndpointV4),
     e6 \in AddrInputs(RegisteredConfig.EndpointV6),
     a4 \in AddrInputs(RegisteredConfig.IPv4),
     a6 \in AddrInputs(RegisteredConfig.IPv6),
     u6 \in BOOLEAN, n4 \in BOOLEAN, n6 \in BOOLEAN, dns \in DNSInputs}

StartupInit ==
  /\ InitCommon
  /\ mpc = "none"
  /\ b = StartTunnelBackoff
  /\ packetBufferPool = NewNetBuffer(DefaultMTU)
  /\ RecordersInit
  /\ ResolverInit(DefaultDNSTimeoutSec)
  /\ ExtraInit
  /\ ServiceInit(FALSE)
  /\ cfg \in StartupConfigs

StartupNext ==
  \/ ServiceRunStarts
  \/ \E stage \in StartupStages : ServiceRunFails(stage)

StartupSpec == StartupInit /\ [][StartupNext]_vars

\* goroutines are scheduled and Accept on a closed listener returns; startup,
\* clients, transient Accept errors and the cancellation owe nothing
ServiceFairness ==
  /\ WF_vars(CloserRuns)
  /\ WF_vars(AcceptFails(FALSE))
  /\ \A o \in Owners : WF_vars(LifecycleReturns(o))
  /\ \A c \in Clients : WF_vars(ClientStep(c))

FairServiceSpec == ServiceSpec /\ ServiceFairness

\* ============================================================ properties
\* handleConnection call number a has returned
HandleConnectionReturned(a) ==
  \/ a < attempts
  \/ a = attempts /\ mpc \notin {"connect", "forwarding"}

LoopExited(loop) == loop.pc \in {"idle", "done"}

\* C1: when a copy loop has failed with an I/O error and the caller's scope is
\* not cancelled, handleForwarding returns the error of the first loop that
\* failed, never a cancellation error nor a later loop's error.
C1_FirstErrorReturned ==
  \A a \in Attempts :
    (/\ hfReturned[a]
     /\ a = attempts
     /\ mpc = "check"
     /\ ~ctxDone
     /\ failOrder[a] # <<>>) => err = Head(failOrder[a])

\* C2: once the forwarding scope of a session is cancelled, every copy loop of
\* that session eventually exits, whether or not another packet arrives.
C2_LoopsExitOnCancel ==
  \A a \in Attempts :
    [](Done(a) => <>(LoopExited(egress[a]) /\ LoopExited(ingress[a])))

\* C3: every buffer acquired during a forwarding session has been released
\* exactly once by the time handleForwarding returns for that session.
C3_ReleasedBeforeReturn ==
  \A a \in Attempts :
    /\ egress[a].buf.rel <= 1
    /\ ingress[a].buf.rel <= 1
    /\ hfReturned[a] => SessionOutstanding(a) = 0

\* buffers held unreleased by copy loops of any session, lost ones not counted
HeldByLoops ==
  SumOver([a \in Attempts |-> Unreleased(egress[a]) + Unreleased(ingress[a])],
          Attempts)

\* C4: at every moment at most 2 buffers are acquired and not yet released,
\* one per live copy loop (counting only the buffers the loops still hold).
C4_OutstandingAtMostTwo == HeldByLoops <= 2

\* C5: whenever handleConnection has returned after ConnectTunnel yielded a
\* connection, the IP connection, the QUIC transport and the UDP socket of
\* that attempt are all closed.
C5_AllClosedOnReturn ==
  \A a \in Attempts :
    (HandleConnectionReturned(a) /\ conn[a].status # "none") =>
      (conn[a].ip = "closed" /\ conn[a].tr = "closed" /\ conn[a].udp = "closed")

\* C5 witness: a session that forwarded, failed and was torn down, and a
\* rejected attempt that was torn down
C5_Witness ==
  /\ \E a \in Attempts :
       /\ HandleConnectionReturned(a)
       /\ conn[a].status = "200"
       /\ failOrder[a] # <<>>
       /\ conn[a].ip = "closed"
  /\ \E a \in Attempts :
       /\ HandleConnectionReturned(a)
       /\ conn[a].status = "403"
       /\ conn[a].udp = "closed"

\* C6: while the maintenance scope is not cancelled, every attempt that ends
\* with an error is eventually followed by a new attempt.
C6_RetryFollowsFailure ==
  []((mpc = "check" /\ err # "nil") => <>(ctxDone \/ mpc = "connect"))

\* C6 witness: a second attempt under way after a failed first one, the scope
\* still live
C6_Witness ==
  /\ attempts = 2
  /\ mpc = "connect"
  /\ err \in {"dial", "rejected", "ingressRead", "egressWrite"}
  /\ ~ctxDone

\* C7: after the maintenance scope is cancelled MaintainTunnel eventually
\* returns, and it begins at most one more connection attempt.
C7_CancelReturns ==
  /\ [](ctxDone => <>(mpc = "returned"))
  /\ [](postCancelAttempts <= 1)

\* C7 witness: MaintainTunnel has returned after a cancellation that let one
\* more attempt begin
C7_Witness ==
  /\ ctxDone
  /\ mpc = "returned"
  /\ postCancelAttempts = 1

\* C8: across consecutive attempts that fail before forwarding begins, the
\* attempt number passed to handleConnection grows by one with each failure.
C8_AttemptNumberGrows ==
  (/\ mpc = "connect"
   /\ attempts >= 2
   /\ err \in {"dial", "rejected"}) => argAttempt = retAttempt

\* min(InitialDelay * Factor^k, MaxDelay), scaled by FactorDen^k
RECURSIVE Pow(_, _)
Pow(x, k) == IF k = 0 THEN 1 ELSE x * Pow(x, k - 1)
ScaledIdealDelay(bo, k) ==
  LET grown == bo.InitialDelay * Pow(bo.FactorNum, k)
      cap == bo.MaxDelay * Pow(bo.FactorDen, k)
  IN IF grown < cap THEN grown ELSE cap

\* C9: the duration NextDelay returns, jitter included, is at most MaxDelay.
C9_DelayAtMostMax ==
  (mpc = "pure" /\ delay # NoDelay) => delay <= b.MaxDelay

\* C10: NextDelay(k) lies in [0.9 d(k), 1.1 d(k)] with
\* d(k) = min(InitialDelay * Factor^k, MaxDelay), for the k >= 1 the loop
\* runs on (k <= 0 selects the internal counter instead).
C10_DelayWithinJitterOfIdeal ==
  (mpc = "pure" /\ delay # NoDelay /\ retAttempt >= 1) =>
    LET scaled == JitterDivisor * delay * Pow(b.FactorDen, retAttempt)
        ideal == ScaledIdealDelay(b, retAttempt)
    IN /\ (JitterDivisor - 1) * ideal <= scaled
       /\ scaled <= (JitterDivisor + 1) * ideal

\* C11: when the first attempt of a maintenance loop is rejected with a
\* non-200 status, the delay of the retry lies in
\* [0.9 InitialDelay, 1.1 InitialDelay].
C11_FirstRetryNearInitialDelay ==
  (mpc = "backoff" /\ attempts = 1 /\ err = "rejected") =>
    /\ (JitterDivisor - 1) * b.InitialDelay <= JitterDivisor * delay
    /\ JitterDivisor * delay <= (JitterDivisor + 1) * b.InitialDelay

\* attempts that CONNECT-IP answered with status 200
Answered200 == {a \in Attempts : conn[a].status = "200"}

\* C12: the handshakes counter equals the number of attempts answered with
\* status 200: each of them adds exactly one, and dial failures, rejections
\* and forwarding errors add nothing.
C12_HandshakesCountStatus200 == stats.HandShake = Cardinality(Answered200)

\* C12 witness: a session failed mid-stream, the loop reconnected, and the
\* counter reads 2
C12_Witness ==
  /\ attempts = 2
  /\ conn[1].status = "200"
  /\ failOrder[1] # <<>>
  /\ stats.Errors >= 1
  /\ mpc = "forwarding"
  /\ stats.HandShake = 2

\* C14: when a forwarding session ends on the cancellation of its scope and
\* no copy loop has failed, handleConnection leaves the errors counter alone.
C14_CancelNotAnError ==
  [][(mpc = "forwarding" /\ mpc' = "check" /\ failOrder[attempts] = <<>>)
       => stats'.Errors = stats.Errors]_vars

\* bytes of the calls that have added their packet and not yet their bytes
PendingBytes(dir) ==
  SumOver([g \in Recorders |->
             IF recorders[g].pc = "bytes" /\ recorders[g].dir = dir
             THEN recorders[g].n ELSE 0], Recorders)

\* C13: with several goroutines updating one TunnelStats concurrently, none
\* of packets_in, packets_out, bytes_in, bytes_out ever decreases, and every
\* increment asked for is in the counter once its add has run.
C13_StatsMonotoneNoLoss ==
  /\ [](/\ stats.PacketsIn = requested.PacketsIn
        /\ stats.PacketsOut = requested.PacketsOut
        /\ stats.BytesIn + PendingBytes("In") = requested.BytesIn
        /\ stats.BytesOut + PendingBytes("Out") = requested.BytesOut)
  /\ [][/\ stats'.PacketsIn >= stats.PacketsIn
        /\ stats'.PacketsOut >= stats.PacketsOut
        /\ stats'.BytesIn >= stats.BytesIn
        /\ stats'.BytesOut >= stats.BytesOut]_vars

\* C13 witness: the leftover loop and both loops of the current session are
\* inside a Record call at once, a packet counted whose bytes are not yet
C13_Witness ==
  /\ \A g \in Recorders : recorders[g].pc = "bytes"
  /\ stats.PacketsOut = 2
  /\ stats.PacketsIn = 1
  /\ stats.BytesOut + stats.BytesIn = 0

\* caller c begins a Resolve(h) on this step
ResolveBegins(c, h) ==
  /\ calls[c].pc # "select"
  /\ calls'[c] # calls[c]
  /\ calls'[c].name = h

\* C15: a Resolve(H) made while H has an entry E and the time is before
\* E.ExpiresAt returns E's address and starts no lookup; a lookup is started
\* only when the entry is absent or expired.
C15_FreshEntryServedWithoutLookup ==
  [][\A c \in Callers, h \in Hosts :
       ResolveBegins(c, h) =>
         LET e == resolver.cache[h] IN
           /\ (e.exists /\ clock < e.ExpiresAt) =>
                /\ calls'[c].pc = "done"
                /\ calls'[c].ip = e.IP
                /\ calls'[c].err = "nil"
                /\ calls'[c].lookup = "none"
           /\ calls'[c].lookup = "running" =>
                (~e.exists \/ clock >= e.ExpiresAt)]_vars

\* C15 witness: a call served from an entry stored at an earlier second
C15_Witness ==
  \E c \in Callers :
    /\ calls[c].pc = "done"
    /\ calls[c].hit
    /\ calls[c].ip = resolver.cache[calls[c].name].IP
    /\ clock >= 1
    /\ clock < resolver.cache[calls[c].name].ExpiresAt

\* caller c returns from Resolve with an address it looked up, on this step
LookupSucceeds(c) ==
  /\ calls[c].pc = "select"
  /\ calls'[c].pc = "done"
  /\ calls'[c].err = "nil"

\* C16: the entry a successful lookup stores expires TTL after the moment it
\* is stored, so it is still fresh when the call returns, however long the
\* lookup took.
C16_ExpiryCountsFromInsertion ==
  [][\A c \in Callers :
       LookupSucceeds(c) =>
         /\ resolver'.cache[calls[c].name].ExpiresAt = clock + resolver.CacheTTL
         /\ cacheHit(resolver', calls[c].name, clock)]_vars

\* C17: a Resolve call that fails (lookup error, no address, or the caller's
\* context cancelled first) changes nothing in the cache; of all the steps of
\* a call only the return of a looked-up address writes to it.
C17_FailureLeavesCache ==
  [][\A c \in Callers :
       (calls'[c] # calls[c] /\ ~LookupSucceeds(c)) =>
         resolver' = resolver]_vars

\* C17 witness: a lookup for a name with an expired entry has failed, another
\* was cancelled, and the entries are still in the cache
C17_Witness ==
  \E c, d \in Callers :
    /\ calls[c].pc = "done"
    /\ calls[c].err \in {"lookupErr", "ErrClosed"}
    /\ resolver.cache[calls[c].name].exists
    /\ resolver.cache[calls[c].name].ExpiresAt <= clock
    /\ calls[d].pc = "done"
    /\ calls[d].err = "canceled"

RunningLifecycles == {o \in Owners : lifecycle[o].state = "running"}
OpenSessions == {c \in Clients : session[c] = "open"}

\* C18: with per_client enabled no shared device is created and no shared
\* lifecycle is started, and the running lifecycles are as many as the
\* accepted SOCKS connections whose sessions are still open.
C18_PerClientNoSharedTunnel ==
  perClient =>
    /\ device[Shared] = "none"
    /\ lifecycle[Shared].state = "none"
    /\ Cardinality(RunningLifecycles) = Cardinality(OpenSessions)

\* C19: per client, the device is closed only after the client's own scope
\* was cancelled, that cancel comes only after the client's own session ended,
\* and a session that ended is followed by the close of its device; while a
\* client's session is open its device is open and its scope is cancelled by
\* nothing but the root scope.
C19_ClientTeardownIsolated ==
  /\ [](perClient =>
         \A c \in Clients :
           /\ device[c] = "closed" => lifecycle[c].cancelled
           /\ lifecycle[c].cancelled => session[c] \in {"cancelled", "closed"}
           /\ session[c] = "open" =>
                (device[c] = "open" /\ (ScopeDone(c) => rootDone)))
  /\ \A c \in Clients :
       []((perClient /\ session[c] = "ended") => <>(device[c] = "closed"))

\* C19 witness: A's session ended, its scope was cancelled and its device
\* closed, while B's session is open on an open device and a live scope
C19_Witness ==
  /\ perClient
  /\ ~rootDone
  /\ \E a, bb \in Clients :
       /\ session[a] = "closed"
       /\ lifecycle[a].cancelled
       /\ device[a] = "closed"
       /\ session[bb] = "open"
       /\ device[bb] = "open"
       /\ ~ScopeDone(bb)
       /\ lifecycle[bb].state = "running"

\* C20: in shared mode, once the root scope is cancelled the listener gets
\* closed, the accept loop returns nil, the maintenance loop sees its scope
\* cancelled and the shared device is closed; and the device is never closed
\* before the listener.
C20_SharedShutdownOrder ==
  /\ []((~perClient /\ rootDone /\ runPc = "accept") =>
          <>(/\ listener = "closed"
             /\ runPc = "returned"
             /\ runResult = "nil"
             /\ lifecycle[Shared].state = "returned"
             /\ device[Shared] = "closed"))
  /\ []((~perClient /\ runResult = "nil" /\ device[Shared] = "closed") =>
          listener = "closed")

\* C28: every teardown handleConnection does closes the IP-packet connection
\* first, the QUIC transport second and the UDP socket last.
C28_TeardownOrderIpTransportUdp ==
  \A a \in Attempts :
    conn[a].closeOrder # <<>> => conn[a].closeOrder = <<"ip", "tr", "udp">>

\* C29: handleConnection(attempt) returns attempt + 1 and an error when the
\* dial fails (no error recorded) or the status is not 200 (exactly one error
\* recorded), and 0 with handleForwarding's result after a forwarding session.
C29_HandleConnectionResults ==
  [][/\ (mpc = "connect" /\ mpc' = "check") =>
          /\ retAttempt' = argAttempt + 1
          /\ err' # "nil"
          /\ IF conn'[attempts].status = "none"
               THEN stats'.Errors = stats.Errors
               ELSE /\ conn'[attempts].status # "200"
                    /\ stats'.Errors = stats.Errors + 1
     /\ (mpc = "forwarding" /\ mpc' = "check") =>
          /\ retAttempt' = 0
          /\ err' = IF errChan'[attempts] # errChan[attempts]
                      THEN Head(errChan[attempts]) ELSE "canceled"]_vars

\* C29 witness: a call with attempt 2 was rejected and returned 3, one error
\* recorded, after an earlier call with attempt 2 had forwarded and returned 0
C29_Witness ==
  /\ mpc = "check"
  /\ attempts = 2
  /\ argAttempt = 2
  /\ conn[1].status = "200"
  /\ conn[2].status = "403"
  /\ retAttempt = 3
  /\ err = "rejected"
  /\ stats.Errors = 2

\* the state of the connection lifecycle the maintenance loop is in: after
\* handleConnection has returned (line 761) it is still in the state the call
\* ended in, and between the sleep and the next call it is still backing off
Phase ==
  CASE mpc = "returned" -> "Terminal"
    [] mpc = "backoff" -> "Backoff"
    [] mpc = "forwarding" -> "Forwarding"
    [] mpc \in {"call", "connect"} -> "Dialing"
    [] mpc = "check" ->
         IF conn[attempts].status = "200" THEN "Forwarding" ELSE "Dialing"
    [] mpc = "top" /\ attempts > 0 -> "Backoff"
    [] OTHER -> "Idle"

\* the transitions the lifecycle is said to have
ListedTransition ==
  \/ /\ Phase = "Dialing" /\ Phase' = "Forwarding"
     /\ conn'[attempts].status = "200"
  \/ /\ Phase = "Dialing" /\ Phase' = "Backoff"
     /\ err \in {"dial", "rejected"}
  \/ /\ Phase = "Forwarding" /\ Phase' = "Backoff"
     /\ failOrder[attempts] # <<>>
  \/ /\ Phase = "Backoff" /\ Phase' = "Dialing"
     /\ mpc = "top"
  \/ /\ Phase \in {"Forwarding", "Backoff"} /\ Phase' = "Terminal"
     /\ ctxDone

\* C30 as stated: a lifecycle that has begun dialing moves only from Dialing
\* to Forwarding after a status 200, from Dialing to Backoff on a dial failure
\* or a rejection, from Forwarding to Backoff on an I/O error, from Backoff to
\* Dialing when the delay has elapsed, and from Forwarding or Backoff to
\* Terminal on cancellation.
C30_ListedTransitionsOnly ==
  [][(Phase # "Idle" /\ Phase' # Phase) => ListedTransition]_vars

\* C30 amended: the listed transitions, and Dialing to Terminal when the
\* scope is found cancelled after a failed dial or a rejection.
C30_TransitionsWithDialingCancelled ==
  [][(Phase # "Idle" /\ Phase' # Phase) =>
       \/ ListedTransition
       \/ /\ Phase = "Dialing" /\ Phase' = "Terminal"
          /\ ctxDone
          /\ err \in {"dial", "rejected"}]_vars

\* C30 witness: the loop has returned straight after its first call failed
\* to dial: NextDelay was never called
C30_Witness ==
  /\ mpc = "returned"
  /\ ctxDone
  /\ attempts = 1
  /\ err = "dial"
  /\ conn[1].status = "none"
  /\ b.attempt = 0

\* a sequence of packet numbers in the order the source delivered them
InSourceOrder(seq) ==
  \A i, j \in 1..Len(seq) : i < j => seq[i] < seq[j]

\* C27: in each direction the packets written to the sink are in the order
\* in which they were read from the source, across sessions and reconnections.
C27_SinkKeepsSourceOrder ==
  /\ InSourceOrder(written.ip)
  /\ InSourceOrder(written.dev)

\* rootCmd.Execute() for the proxy command, root.go line 33-35: the command
\* is declared with Run, not RunE (part_006 line 22), and runProxyCmd prints
\* the error of svc.Run and returns (line 144-147), so Execute returns nil
Execute(runErr) == "nil"

\* main, main.go line 10-15
ExitCode(execErr) == IF execErr # "nil" THEN 1 ELSE 0

\* ============================================================ proxy command
\* runProxyCmd on a configuration loaded from the file (config.ConfigLoaded:
\* the registration of part_006 line 67-79 is not needed), then the server
\* socks.Run builds from it and the clients that greet the server

\* a reset that leaves the SNI at its default
ResetConfigDroppingSNI(c) ==
  [c EXCEPT !.Socks = GetDefaultSocksConfig,
            !.Tunnel = GetDefaultTunnelConfig]

\* part_006 line 85-92: the SOCKS and tunnel sections are set to their
\* defaults and the SNI address saved before is put back
ResetConfig(c) ==
  [c EXCEPT !.Socks = GetDefaultSocksConfig,
            !.Tunnel = [GetDefaultTunnelConfig EXCEPT
                          !.SNIAddress = c.Tunnel.SNIAddress]]

\* part_006 line 107-132: a flag that is not empty replaces the value
Override(value, flag) == IF flag # "" THEN flag ELSE value
ApplyOverrides(c, f) ==
  [c EXCEPT !.Socks.BindAddress = Override(@, f.bindAddress),
            !.Socks.Port = Override(@, f.port),
            !.Socks.Username = Override(@, f.username),
            !.Socks.Password = Override(@, f.password)]
\* line 104-132: configChanged
ConfigChanged(f) ==
  f.bindAddress # "" \/ f.port # "" \/ f.username # "" \/ f.password # ""

\* createServer, part_002 line 101-120: WithAuthMethods is given only when
\* both strings are set; without it the server takes clients unauthenticated
createServer(username, password) ==
  [NoServer EXCEPT !.auth = IF username # "" /\ password # "" THEN "userpass"
                            ELSE "none",
                   !.username = username, !.password = password]

\* what a client offers in its greeting: no authentication, or the
\* username/password method with the configured or with other credentials
OfferInputs == {"noauth", "userpass", "wrongpass"}

\* the server's answer to a greeting
Greeted(sv, offer) ==
  IF sv.auth = "userpass"
    THEN IF offer = "userpass" THEN "accepted" ELSE "rejected"
    ELSE IF offer = "noauth" THEN "accepted" ELSE "rejected"

FlagInputs ==
  [resetConfig : BOOLEAN, bindAddress : {"", "0.0.0.0"}, port : {"", "9050"},
   username : {"", "flaguser"}, password : {"", "flagpass"}]

SocksInputs ==
  {GetDefaultSocksConfig} \cup
  {[BindAddress |-> "0.0.0.0", Port |-> "1081", Username |-> u, Password |-> p] :
     u \in {"", "alice"}, p \in {"", "secret"}}
TunnelInputs ==
  {RegisteredConfig.Tunnel,
   [ConnectPort |-> 8443, DNS |-> <<"9.9.9.9">>, DNSTimeout |-> 5,
    UseIPv6 |-> TRUE, NoTunnelIPv4 |-> TRUE, NoTunnelIPv6 |-> FALSE,
    SNIAddress |-> "sni.custom", KeepalivePeriod |-> 10, MTU |-> 1400,
    InitialPacketSize |-> 1300, ReconnectDelay |-> 3,
    ConnectionTimeout |-> 10, IdleTimeout |-> 60, PerClient |-> TRUE]}
LoadedConfigs ==
  {[RegisteredConfig EXCEPT !.PrivateKey = id[1], !.ID = id[2],
                            !.Socks = so, !.Tunnel = tu] :
     id \in {<<"key1", "id1">>, <<"key2", "id2">>},
     so \in SocksInputs, tu \in TunnelInputs}

CommandSpecInit ==
  /\ InitCommon
  /\ mpc = "none"
  /\ b = StartTunnelBackoff
  /\ packetBufferPool = NewNetBuffer(DefaultMTU)
  /\ RecordersInit
  /\ ResolverInit(DefaultDNSTimeoutSec)
  /\ ServiceInit(FALSE)
  /\ PoolOpInit
  /\ TimeoutConnInit
  /\ budget = Budget(MaxPackets, MaxPackets, MaxPackets)
  /\ configFile \in LoadedConfigs
  /\ cfg = configFile
  /\ flags \in FlagInputs
  /\ cmdPc = "start"
  /\ server = NoServer

\* runProxyCmd up to its call of svc.Run, part_006 line 52-140; saveReset and
\* saveFlags: SaveConfig succeeds on line 95 and on line 137
RunProxyCmd(saveReset, saveFlags) ==
  /\ cmdPc \in {"start", "again"}
  /\ LET reset == IF flags.resetConfig THEN ResetConfig(cfg) ELSE cfg
         over == ApplyOverrides(reset, flags)
     IN IF flags.resetConfig /\ ~saveReset
          THEN /\ cfg' = reset
               /\ cmdPc' = "returned"
               /\ UNCHANGED configFile
          ELSE /\ cfg' = over
               /\ cmdPc' = "run"
               /\ configFile' = IF ConfigChanged(flags) /\ saveFlags THEN over
                                ELSE IF flags.resetConfig THEN reset
                                ELSE configFile
  /\ UNCHANGED <<tunnelVars, recordVars, resolverVars, serviceVars, budget,
                 poolVars, connVars, flags, server>>

\* svc.Run, part_006 line 143-144, as far as the server of part_002 line
\* 48-51 (line 85 builds it from the same two strings for every client)
CreateServer ==
  /\ cmdPc = "run"
  /\ server' = createServer(cfg.Socks.Username, cfg.Socks.Password)
  /\ cmdPc' = "serving"
  /\ UNCHANGED <<tunnelVars, recordVars, resolverVars, serviceVars, budget,
                 poolVars, connVars, cfg, flags, configFile>>

\* part_002 line 89 / 97: ServeConn negotiates with a client's greeting
ClientGreets(offer) ==
  /\ cmdPc = "serving"
  /\ server' = [server EXCEPT !.client = Greeted(server, offer),
                              !.offered = offer]
  /\ UNCHANGED <<tunnelVars, recordVars, resolverVars, serviceVars, budget,
                 poolVars, connVars, cfg, flags, cmdPc, configFile>>

\* the process has ended and the same command line is run once more: the
\* configuration is loaded from the file again
RunAgain ==
  /\ cmdPc \in {"serving", "returned"}
  /\ cfg' = configFile
  /\ server' = NoServer
  /\ cmdPc' = "again"
  /\ UNCHANGED <<tunnelVars, recordVars, resolverVars, serviceVars, budget,
                 poolVars, connVars, flags, configFile>>

CommandNext ==
  \/ \E saveReset, saveFlags \in BOOLEAN : RunProxyCmd(saveReset, saveFlags)
  \/ CreateServer
  \/ \E offer \in OfferInputs : ClientGreets(offer)
  \/ RunAgain

CommandSpec == CommandSpecInit /\ [][CommandNext]_vars

\* C21: when Service.Run has returned, the exit code of the process is 0 only
\* if it returned nil (clean shutdown) and non-zero if startup failed.
C21_ExitCodeTellsStartupFailure ==
  runPc = "returned" =>
    (ExitCode(Execute(runResult)) = 0 <=> runResult = "nil")

\* one of the addresses PrepareNetworkConfig uses cannot be parsed
UsedAddressUnparseable ==
  \/ (IF cfg.Tunnel.UseIPv6 THEN cfg.EndpointV6 ELSE cfg.EndpointV4)
       \notin ValidAddrs
  \/ ~cfg.Tunnel.NoTunnelIPv4 /\ cfg.IPv4 \notin ValidAddrs
  \/ ~cfg.Tunnel.NoTunnelIPv6 /\ cfg.IPv6 \notin ValidAddrs
  \/ \E i \in 1..Len(cfg.Tunnel.DNS) : cfg.Tunnel.DNS[i] \notin ValidAddrs

\* C22: with an unparseable address in use, Service.Run has failed once it has
\* left its start, no later than in PrepareNetworkConfig, and neither a device
\* nor a connection lifecycle exists.
C22_UnparseableAddressStopsStartup ==
  (UsedAddressUnparseable /\ runPc # "start") =>
    /\ runPc = "returned"
    /\ runResult \in {"prepare", "network"}
    /\ device[Shared] = "none"
    /\ lifecycle[Shared].state = "none"

\* ============================================================ TimeoutConn
\* part_007: a net.Conn wrapped with an idle timeout. SetReadDeadline and
\* SetWriteDeadline fail on a closed connection, and so do Read and Write.
\* TimeoutSettings (setup.go line 87-89) replaces an idle timeout of 0, so
\* the program builds TimeoutConns with positive or negative timeouts.
IdleTimeoutInputs == {-1, 1, 2}

TimeoutConnSpecInit ==
  /\ InitCommon
  /\ mpc = "none"
  /\ b = StartTunnelBackoff
  /\ packetBufferPool = NewNetBuffer(DefaultMTU)
  /\ RecordersInit
  /\ ResolverInit(DefaultDNSTimeoutSec)
  /\ ServiceInit(FALSE)
  /\ cfg = RegisteredConfig
  /\ PoolOpInit
  /\ CommandInit
  /\ budget = Budget(MaxPackets, MaxPackets, MaxPackets)
  /\ \E t \in IdleTimeoutInputs : tconn = NewTimeoutConn(t)

\* the underlying Read or Write of n bytes, called with the deadline given
ConnIO(c, op, deadline, n) ==
  IF c.closed
    THEN [op |-> op, invoked |-> TRUE, deadline |-> deadline, n |-> 0,
          err |-> "closed"]
    ELSE [op |-> op, invoked |-> TRUE, deadline |-> deadline, n |-> n,
          err |-> "nil"]
\* line 17-19 / 27-29: the error of the deadline call is returned with 0
DeadlineFailed(c, op, deadline) ==
  [op |-> op, invoked |-> FALSE, deadline |-> deadline, n |-> 0,
   err |-> "setdeadline"]

\* a Read that delegates first and sets the deadline afterwards
TimeoutConnReadThenDeadline(n) ==
  /\ tconn' =
       IF tconn.IdleTimeout > 0
         THEN IF tconn.closed
                THEN [tconn EXCEPT
                        !.last = DeadlineFailed(tconn, "read", tconn.readDeadline)]
                ELSE [tconn EXCEPT
                        !.readDeadline = clock + tconn.IdleTimeout,
                        !.last = ConnIO(tconn, "read", tconn.readDeadline, n)]
         ELSE [tconn EXCEPT !.last = ConnIO(tconn, "read", tconn.readDeadline, n)]
  /\ UNCHANGED <<tunnelVars, recordVars, resolverVars, serviceVars, budget,
                 poolVars, commandVars>>

\* TimeoutConn.Read, part_007 line 14-22
TimeoutConnRead(n) ==
  /\ tconn' =
       IF tconn.IdleTimeout > 0
         THEN IF tconn.closed
                THEN [tconn EXCEPT
                        !.last = DeadlineFailed(tconn, "read", tconn.readDeadline)]
                ELSE [tconn EXCEPT
                        !.readDeadline = clock + tconn.IdleTimeout,
                        !.last = ConnIO(tconn, "read",
                                        clock + tconn.IdleTimeout, n)]
         ELSE [tconn EXCEPT !.last = ConnIO(tconn, "read", tconn.readDeadline, n)]
  /\ UNCHANGED <<tunnelVars, recordVars, resolverVars, serviceVars, budget,
                 poolVars, commandVars>>

\* TimeoutConn.Write, part_007 line 24-32
TimeoutConnWrite(n) ==
  /\ tconn' =
       IF tconn.IdleTimeout > 0
         THEN IF tconn.closed
                THEN [tconn EXCEPT
                        !.last = DeadlineFailed(tconn, "write", tconn.writeDeadline)]
                ELSE [tconn EXCEPT
                        !.writeDeadline = clock + tconn.IdleTimeout,
                        !.last = ConnIO(tconn, "write",
                                        clock + tconn.IdleTimeout, n)]
         ELSE [tconn EXCEPT !.last = ConnIO(tconn, "write", tconn.writeDeadline, n)]
  /\ UNCHANGED <<tunnelVars, recordVars, resolverVars, serviceVars, budget,
                 poolVars, commandVars>>

\* the connection is closed (net.Conn.Close, promoted from the embedded Conn)
TimeoutConnClose ==
  /\ ~tconn.closed
  /\ tconn' = [tconn EXCEPT !.closed = TRUE]
  /\ UNCHANGED <<tunnelVars, recordVars, resolverVars, serviceVars, budget,
                 poolVars, commandVars>>

IOSizes == {1, 2}

TimeoutConnNext ==
  \/ \E n \in IOSizes : TimeoutConnRead(n)
  \/ \E n \in IOSizes : TimeoutConnWrite(n)
  \/ TimeoutConnClose
  \/ Tick

TimeoutConnSpec == TimeoutConnSpecInit /\ [][TimeoutConnNext]_vars

\* ============================================================ NetBuffer alone
\* a NetBuffer and callers that take slices from it and give back slices of
\* any capacity and length (a caller may re-slice what it was given)
PoolCapacities == {2, 3}
SliceInputs(pool) ==
  {s \in [cap : 1..(pool.capacity + 1), len : 0..(pool.capacity + 1)] :
     s.len <= s.cap}

PoolSpecInit ==
  /\ InitCommon
  /\ mpc = "none"
  /\ b = StartTunnelBackoff
  /\ RecordersInit
  /\ ResolverInit(DefaultDNSTimeoutSec)
  /\ ServiceInit(FALSE)
  /\ cfg = RegisteredConfig
  /\ PoolOpInit
  /\ TimeoutConnInit
  /\ CommandInit
  /\ budget = Budget(MaxPackets, MaxPackets, MaxPackets)
  /\ \E capacity \in PoolCapacities : packetBufferPool = NewNetBuffer(capacity)

\* NetBuffer.Get / GetBuf, line 397-399 and 412-414: sync.Pool hands out any
\* of the slices it holds
PoolGetPooled(x) ==
  /\ BagIn(x, packetBufferPool.free)
  /\ packetBufferPool' =
       [packetBufferPool EXCEPT !.free = packetBufferPool.free (-) SetToBag({x})]
  /\ poolOp' = [op |-> "get", buf |-> x]
  /\ UNCHANGED <<ctxDone, devClosed, mpc, attempts, argAttempt,
                 reconnectAttempt, retAttempt, err, b, delay, stats, conn,
                 hfCancelled, hfReturned, errChan, egress, ingress, failOrder,
                 lost, devReads, ipReads, postCancelAttempts, written,
                 recordVars, resolverVars, serviceVars, budget, poolUse,
                 connVars, commandVars>>

\* line 435-438: sync.Pool calls New when it has nothing to hand out, which
\* it may decide at any time (it drops what it holds at a garbage collection)
PoolGetNew ==
  /\ poolOp' = [op |-> "get", buf |-> NewSlice(packetBufferPool)]
  /\ UNCHANGED <<tunnelVars, recordVars, resolverVars, serviceVars, budget,
                 poolUse, connVars, commandVars>>

\* NetBuffer.Put / PutBuf, line 404-409 and 421-426
PoolPut(buf) ==
  /\ BagCardinality(packetBufferPool.free) < MaxPooled
  /\ packetBufferPool' = PutBufPool(packetBufferPool, buf)
  /\ poolOp' = [op |-> "put", buf |-> buf]
  /\ UNCHANGED <<ctxDone, devClosed, mpc, attempts, argAttempt,
                 reconnectAttempt, retAttempt, err, b, delay, stats, conn,
                 hfCancelled, hfReturned, errChan, egress, ingress, failOrder,
                 lost, devReads, ipReads, postCancelAttempts, written,
                 recordVars, resolverVars, serviceVars, budget, poolUse,
                 connVars, commandVars>>

PoolNext ==
  \/ \E x \in SliceInputs(packetBufferPool) : PoolGetPooled(x)
  \/ PoolGetNew
  \/ \E buf \in SliceInputs(packetBufferPool) : PoolPut(buf)

PoolSpec == PoolSpecInit /\ [][PoolNext]_vars

\* the identity fields of a configuration
Identity(c) ==
  <<c.PrivateKey, c.EndpointV4, c.EndpointV6, c.EndpointPubKey, c.License,
    c.ID, c.AccessToken, c.IPv4, c.IPv6>>

\* the SOCKS and tunnel sections are the defaults, whatever the SNI is
SectionsAtDefault(c) ==
  /\ c.Socks = GetDefaultSocksConfig
  /\ [c.Tunnel EXCEPT !.SNIAddress = ""] = GetDefaultTunnelConfig

\* runProxyCmd runs with --reset-config and no override flag
ResetRun ==
  /\ cmdPc \in {"start", "again"}
  /\ cmdPc' # cmdPc
  /\ flags.resetConfig
  /\ ~ConfigChanged(flags)

\* C23: on a loaded configuration, --reset-config without override flags
\* sets the SOCKS and tunnel sections to their defaults but keeps the SNI,
\* leaves every identity field as it was, and run a second time on what the
\* first run produced it changes nothing.
C23_ResetKeepsIdentityAndSNI ==
  [][ResetRun =>
       /\ SectionsAtDefault(cfg')
       /\ cfg'.Tunnel.SNIAddress = cfg.Tunnel.SNIAddress
       /\ Identity(cfg') = Identity(cfg)
       /\ (cmdPc = "again" /\ SectionsAtDefault(cfg)) => cfg' = cfg]_vars

\* C23 witness: a later run of --reset-config has reset, and failed to save,
\* the configuration an earlier run had reset and saved; it had a second
\* identity, a custom SNI and custom sections
C23_Witness ==
  /\ cmdPc = "returned"
  /\ flags.resetConfig
  /\ ~ConfigChanged(flags)
  /\ configFile = cfg
  /\ SectionsAtDefault(cfg)
  /\ cfg.Tunnel.SNIAddress = "sni.custom"
  /\ cfg.ID = "id2"

\* C24: a client that offers no authentication is accepted exactly when the
\* configuration sets neither a username nor a password.
C24_CredentialsRequireAuth ==
  (cmdPc = "serving" /\ server.offered = "noauth") =>
    (server.client = "accepted" <=>
       (cfg.Socks.Username = "" /\ cfg.Socks.Password = ""))

\* a Read or a Write of the TimeoutConn has returned
IOReturned == tconn'.closed = tconn.closed /\ tconn' # tconn

\* C25: with an idle timeout T > 0 a Read sets the read deadline, and a Write
\* the write deadline, to now + T before the underlying call is made; when
\* the deadline cannot be set the call returns 0 bytes and that error and the
\* underlying call is not made; with T <= 0 no deadline is touched.
C25_DeadlineBeforeEveryIO ==
  [][IOReturned =>
       LET io == tconn'.last
           T == tconn.IdleTimeout
           mine == IF io.op = "read" THEN "readDeadline" ELSE "writeDeadline"
           other == IF io.op = "read" THEN "writeDeadline" ELSE "readDeadline"
       IN /\ tconn'[other] = tconn[other]
          /\ IF T > 0
               THEN IF tconn.closed
                      THEN /\ ~io.invoked
                           /\ io.n = 0
                           /\ io.err = "setdeadline"
                           /\ tconn'[mine] = tconn[mine]
                      ELSE /\ io.invoked
                           /\ io.deadline = clock + T
                           /\ tconn'[mine] = clock + T
               ELSE /\ io.invoked
                    /\ tconn'[mine] = tconn[mine]]_vars

\* C25 witness: at time 2 a Read on a connection with idle timeout 2 was
\* made under the deadline 4, after a Write at time 1 under the deadline 3
C25_Witness ==
  /\ tconn.IdleTimeout = 2
  /\ clock = 2
  /\ tconn.last = [op |-> "read", invoked |-> TRUE, deadline |-> 4, n |-> 1,
                   err |-> "nil"]
  /\ tconn.readDeadline = 4
  /\ tconn.writeDeadline = 3

\* Put or PutBuf has returned
PutReturned ==
  /\ poolOp'.op = "put"
  /\ (poolOp' # poolOp \/ packetBufferPool' # packetBufferPool)

\* C26: a Put of a buffer whose capacity is not the pool's leaves the pool's
\* content as it was, a Put of a buffer whose capacity is the pool's adds it,
\* and every buffer a Get returns has the pool's capacity.
C26_PoolKeepsOnlyItsCapacity ==
  [][/\ PutReturned =>
          packetBufferPool'.free =
            IF poolOp'.buf.cap # packetBufferPool.capacity
              THEN packetBufferPool.free
              ELSE packetBufferPool.free (+) SetToBag({poolOp'.buf})
     /\ poolOp'.op = "get" =>
          poolOp'.buf.cap = packetBufferPool.capacity]_vars

\* C26 witness: a pool of capacity 3 has handed out a slice that a caller had
\* re-sliced to length 1 and given back, and holds another one of length 3
C26_Witness ==
  /\ packetBufferPool.capacity = 3
  /\ poolOp = [op |-> "get", buf |-> [cap |-> 3, len |-> 1]]
  /\ BagToSet(packetBufferPool.free) = {[cap |-> 3, len |-> 3]}

\* ============================================================ retries alone
\* the loop of MaintainTunnel with each handleConnection call taken as what it
\* returns, the scope never cancelled: failure after failure, one NextDelay
\* call per failure
ReconnectDelays == {1, 5, 10}

HandleConnectionOutcomes == {"dial", "rejected", "forwarding"}

\* what handleConnection returns as attempt number: line 709 and 725
\* (reconnectAttempt + 1), line 745 (0)
ReturnedAttempt(outcome, attempt) ==
  IF outcome = "forwarding" THEN 0 ELSE attempt + 1

\* stats.RecordError() at line 724 and 741, not on the dial error of line 709
ErrorRecorded(outcome) == outcome # "dial"

RetryInit ==
  /\ InitCommon
  /\ RestInit
  /\ mpc = "retry"
  /\ b \in {[StartTunnelBackoff EXCEPT !.InitialDelay = d] : d \in ReconnectDelays}
  /\ packetBufferPool = NewNetBuffer(DefaultMTU)

\* one iteration of line 754-775: handleConnection gets the outer
\* reconnectAttempt, its results are declared anew by := at line 761, err is
\* not nil, NextDelay gets the returned number, time.After(delay) fires
RetryIteration(outcome) ==
  /\ mpc = "retry"
  /\ ~ctxDone
  /\ attempts < MaxK
  /\ attempts' = attempts + 1
  /\ argAttempt' = reconnectAttempt
  /\ retAttempt' = ReturnedAttempt(outcome, reconnectAttempt)
  /\ err' = outcome
  /\ stats' = IF ErrorRecorded(outcome) THEN RecordError(stats) ELSE stats
  /\ \E d \in NextDelayValues(b, retAttempt') : delay' = d
  /\ b' = AfterNextDelay(b, retAttempt')
  /\ UNCHANGED <<ctxDone, devClosed, mpc, reconnectAttempt, packetBufferPool,
                 conn, hfCancelled, hfReturned, errChan, egress, ingress,
                 failOrder, lost, devReads, ipReads, postCancelAttempts,
                 written, recordVars, resolverVars, serviceVars, extraVars>>

RetryNext == \E outcome \in HandleConnectionOutcomes : RetryIteration(outcome)

RetrySpec == RetryInit /\ [][RetryNext]_vars

\* C31: without a Reset, the attempt counter of the backoff policy never
\* decreases from one NextDelay call of the maintenance loop to the next,
\* whatever the failures are
C31_AttemptCounterNeverDecreases ==
  [][b'.attempt >= b.attempt]_vars

\* ============================================================ any MTU
\* tunnel.mtu is taken from the configuration as it is (config.go line 97,
\* setup.go line 112): the default, and one of twice packetBuffCap
MTUInputs == {DefaultMTU, 2 * packetBuffCap}

MTUInit == \E mtu \in MTUInputs : InitWithMTU(mtu)

MTUSpec == MTUInit /\ [][Next]_vars

\* a packet was handed to its sink by this step
SinkWriteSucceeded == written' # written

\* C32: with any configured MTU, the buffer of a packet that was written to
\* its sink goes back to the pool in the same step of the copy loop.
C32_HappyPathReturnsBuffer ==
  [][SinkWriteSucceeded =>
       BagCardinality(packetBufferPool'.free)
         = BagCardinality(packetBufferPool.free) + 1]_vars

\* ============================================================ one global pool
\* per-client mode: socks.Run calls StartTunnel for every accepted connection
\* (part_002 line 75-94), each call starts a MaintainTunnel goroutine, and all
\* of them use the one package variable packetBufferPool
\* var packetBufferPool *NetBuffer, line 385: nil until the first entry
NilNetBuffer == [capacity |-> 0, free |-> EmptyBag]

SharedPoolInit ==
  /\ InitCommon
  /\ mpc = "none"
  /\ b = StartTunnelBackoff
  /\ RecordersInit
  /\ ResolverInit(DefaultDNSTimeoutSec)
  /\ ServiceInit(TRUE)
  /\ cfg = RegisteredConfig
  /\ ExtraInit
  /\ packetBufferPool = NilNetBuffer

\* line 748-751: packetBufferPool = NewNetBuffer(config.MTU) on entry, whatever
\* the variable held; the new NetBuffer has an empty sync.Pool
LifecycleEnters(c) ==
  /\ c \notin poolUse.entered
  /\ packetBufferPool' = NewNetBuffer(cfg.Tunnel.MTU)
  /\ poolUse' = [poolUse EXCEPT !.id = poolUse.id + 1,
                                !.entered = poolUse.entered \cup {c}]
  /\ poolOp' = NoPoolOp

\* line 608 / 646: buf := packetBufferPool.GetBuf(), on the NetBuffer the
\* variable names now
LifecycleGetBuf(c, l) ==
  /\ c \in poolUse.entered
  /\ poolUse.task[<<c, l>>].from = 0
  /\ packetBufferPool' = GetBufPool(packetBufferPool)
  /\ poolUse' = [poolUse EXCEPT !.task[<<c, l>>] =
                   [from |-> poolUse.id,
                    buf |-> Slice(GetBufValue(packetBufferPool))]]
  /\ poolOp' = [op |-> "get", buf |-> Slice(GetBufValue(packetBufferPool))]

\* line 626 / 664: packetBufferPool.PutBuf(buf), on the NetBuffer the variable
\* names now
LifecyclePutBuf(c, l) ==
  /\ poolUse.task[<<c, l>>].from # 0
  /\ packetBufferPool' = PutBufPool(packetBufferPool, poolUse.task[<<c, l>>].buf)
  /\ poolUse' = [poolUse EXCEPT
                   !.task[<<c, l>>] = [from |-> 0, buf |-> NoSlice],
                   !.put = [from |-> poolUse.task[<<c, l>>].from,
                            to |-> poolUse.id]]
  /\ poolOp' = [op |-> "put", buf |-> poolUse.task[<<c, l>>].buf]

SharedPoolStep(c) ==
  /\ \/ LifecycleEnters(c)
     \/ \E l \in CopyLoops : LifecycleGetBuf(c, l)
     \/ \E l \in CopyLoops : LifecyclePutBuf(c, l)
  /\ UNCHANGED <<ctxDone, devClosed, mpc, attempts, argAttempt,
                 reconnectAttempt, retAttempt, err, b, delay, stats, conn,
                 hfCancelled, hfReturned, errChan, egress, ingress, failOrder,
                 lost, devReads, ipReads, postCancelAttempts, written,
                 recordVars, resolverVars, serviceVars, budget, connVars,
                 commandVars>>

SharedPoolNext == \E c \in Clients : SharedPoolStep(c)

SharedPoolSpec == SharedPoolInit /\ [][SharedPoolNext]_vars

\* C33: the global pool is created on the first entry into a maintenance loop
\* only, and every buffer is released to the NetBuffer it was acquired from.
C33_PoolCreatedOnceAndReused ==
  /\ poolUse.id <= 1
  /\ poolUse.put.from = poolUse.put.to

\* C34: whatever was put into a NetBuffer before, re-sliced buffers included,
\* a buffer that Get or GetBuf returns has length = capacity = the capacity
\* the pool was created with.
C34_AcquiredBufferIsFullLength ==
  poolOp.op = "get" =>
    /\ poolOp.buf.cap = packetBufferPool.capacity
    /\ poolOp.buf.len = poolOp.buf.cap

\* a step of the egress loop of session a out of its ICMP write
IcmpStep(a) == egress[a].pc = "icmp" /\ egress'[a] # egress[a]

\* the part of C35 that does not count: the reply is pending only when it is
\* not empty and the buffer has been released, and a failed device write
\* leaves the statistics alone and ends the loop with its error sent
IcmpWriteOrder(a) ==
  /\ (egress'[a].pc = "icmp" /\ egress[a].pc # "icmp") =>
       /\ egress[a].pc = "write"
       /\ egress'[a].icmp > 0
       /\ egress'[a].buf.rel = 1
  /\ (IcmpStep(a) /\ egress'[a].pc # "top") =>
       /\ stats' = stats
       /\ egress'[a].pc = "cancel"
       /\ egress'[a].err = "egressIcmp"
       /\ errChan'[a] = Append(errChan[a], "egressIcmp")

DeviceReaders == {a \in Attempts : egress[a].pc = "read"}
DeviceWriters ==
  {<<a, "egress">> : a \in {x \in Attempts : egress[x].pc = "icmp"}}
    \cup {<<a, "ingress">> : a \in {x \in Attempts : ingress[x].pc = "write"}}

\* C36: at any time at most one goroutine is inside device.ReadPacket and at
\* most one inside device.WritePacket, ICMP replies and reconnections included.
C36_OneReaderOneWriter ==
  /\ Cardinality(DeviceReaders) <= 1
  /\ Cardinality(DeviceWriters) <= 1

\* the egress loop of session a takes a packet from the device in this step
TakesDevicePacket(a) == egress[a].pc = "read" /\ egress'[a].pc = "write"

\* C37: once handleForwarding has returned for a session, no copy loop of that
\* session takes another packet from the device, so no packet is consumed by
\* a loop whose IP connection is already torn down.
C37_ReturnedSessionReadsNoPacket ==
  [][\A a \in Attempts :
       TakesDevicePacket(a) => (~hfReturned[a] /\ conn[a].ip = "open")]_vars

\* the errors a loop of each direction sends, and the loops of session a that
\* may still send one
EgressErrors == {"egressRead", "egressWrite", "egressIcmp"}
IngressErrors == {"ingressRead", "ingressWrite"}
MaySend(loop) == IF loop.pc \in {"top", "read", "write", "icmp"} THEN 1 ELSE 0
SentBy(a, errors) ==
  Cardinality({i \in 1..Len(failOrder[a]) : failOrder[a][i] \in errors})

\* C38: in a session each copy loop sends at most one error, so at most two
\* are ever sent on the channel of capacity 2: whatever was sent plus whatever
\* the loops still running may send fits the channel, and a send never blocks.
C38_AtMostOneErrorPerLoop ==
  \A a \in Attempts :
    /\ SentBy(a, EgressErrors) + MaySend(egress[a]) <= 1
    /\ SentBy(a, IngressErrors) + MaySend(ingress[a]) <= 1
    /\ Len(errChan[a]) <= Len(failOrder[a])
    /\ Len(failOrder[a]) <= 2
    /\ (MaySend(egress[a]) + MaySend(ingress[a]) > 0) => CanSend(a)

\* C38 witness: both loops of a session have sent their error, handleForwarding
\* took the first and returned, the second stays in the channel, and both
\* loops have exited
C38_Witness ==
  \E a \in Attempts :
    /\ Len(failOrder[a]) = 2
    /\ hfReturned[a]
    /\ Len(errChan[a]) = 1
    /\ egress[a].pc = "done"
    /\ ingress[a].pc = "done"

\* C39: handleConnection never returns a nil error, forwarding included; so
\* the maintenance loop never takes the Reset branch (from the check straight
\* back to the top of the loop): after a return it either stops because the
\* scope is cancelled or sleeps a backoff delay before the next attempt.
C39_EveryReturnBacksOff ==
  [][/\ mpc' = "check" => err' # "nil"
     /\ (mpc = "check" /\ mpc' # "check") =>
          IF ctxDone THEN mpc' = "returned"
          ELSE /\ mpc' = "backoff"
               /\ delay' # NoDelay
               /\ b'.attempt > 0
     /\ (mpc' = "top" /\ mpc # "top") => mpc = "backoff"]_vars

\* C39 witness: a session ended by its own cancellation (a loop exited after
\* its send and handleForwarding took the ctx.Done() case), the scope is
\* alive, and the maintenance loop sleeps before the next attempt
C39_Witness ==
  /\ mpc = "backoff"
  /\ err = "canceled"
  /\ ~ctxDone
  /\ hfReturned[attempts]

====
